---- MODULE Spec2Model ----
(***************************************************************************)
(* Model of the KV-S3105C (USB bulk) and KV-SS905C (SCSI generic) scanner  *)
(* drivers and of the example scan session built on them (kvscanner.c).    *)
(*                                                                         *)
(* The device is the environment: every answer it gives (status, sense,    *)
(* reply bytes, bus failures) is drawn from small sets.  A byte of memory   *)
(* that nobody initialised is kept as Indet; what the code sees when it    *)
(* reads such a byte is drawn from JunkBytes at the read.                  *)
(***************************************************************************)
EXTENDS Integers, Sequences, FiniteSets, TLC

\* ------------------------------------------------------------------ bounds
MaxPages == 2
MaxBlock == 2
\* transport calls of one run that go on after the bus or the device
\* misbehaved in them (a retry, a truncated transfer, a chunk cut short)
MaxAnomalies == 1

\* ------------------------------------------------------- program constants
kMaxBuffer == 65536
KVS3105_REQUEST_SENSE_SIZE == 20
RESPONSE_SIZE == 18
MAX_CMD_SIZE == 12
GOOD == 0
CHECK_CONDITION == 2
kScsiAttempts == 5
\* the longest reply the drivers decode (picture size); longer ones are
\* image payload, which nobody looks into
MaxDecodedReply == 16

\* --------------------------------------------------------- 32-bit helpers
\* A uint32_t is kept as its four bytes, most significant first, so that
\* unsigned wrap-around stays inside TLC's integers.
U32FromNat(n) ==
  << (n \div 16777216) % 256, (n \div 65536) % 256, (n \div 256) % 256, n % 256 >>

U32Hi(u) == u[1] * 256 + u[2]
U32Lo(u) == u[3] * 256 + u[4]

\* value of a uint32_t below 2^31
U32Val(u) == U32Hi(u) * 65536 + U32Lo(u)

U32IsSmall(u) == u[1] < 128

\* a - b modulo 2^32
U32Sub(a, b) ==
  LET lo     == (U32Lo(a) - U32Lo(b)) % 65536
      borrow == IF U32Lo(a) < U32Lo(b) THEN 1 ELSE 0
      hi     == (U32Hi(a) - U32Hi(b) - borrow) % 65536
  IN  << hi \div 256, hi % 256, lo \div 256, lo % 256 >>

\* An uninitialised byte, and what reading it may give.
Indet == -1
JunkBytes == {4, 170}
Seen(b, jk) == IF b = Indet THEN jk ELSE b

\* bit n of byte b
Bit(b, n) == (b \div (2 ^ n)) % 2

\* ------------------------------------------------------------ sense data
SenseIdx == 1 .. KVS3105_REQUEST_SENSE_SIZE

\* A fixed-format sense block as the device sends it: C index i is TLA+
\* index i + 1.
MkSense(b2, resid, asc, ascq) ==
  [i \in SenseIdx |->
     CASE i = 1       -> 240
       [] i = 3       -> b2
       [] i \in 4..7  -> resid[i - 3]
       [] i = 8       -> 10
       [] i = 13      -> asc
       [] i = 14      -> ascq
       [] OTHER       -> 0]

Zero4 == <<0, 0, 0, 0>>

SenseNoPaper      == MkSense(3, Zero4, 58, 0)     \* 3/0x3a00 out of paper
SenseNotReady     == MkSense(2, Zero4, 4, 1)      \* 2/0x0401 becoming ready
SenseUnitAttn     == MkSense(6, Zero4, 41, 0)     \* 6/0x2900 power on, reset
SenseInvalidField == MkSense(5, Zero4, 36, 0)     \* 5/0x2400 invalid field in CDB
SenseEomIli(r)    == MkSense(96, U32FromNat(r), 0, 0)  \* EOM + ILI, residual r
SenseIli(r)       == MkSense(32, U32FromNat(r), 0, 0)  \* ILI only, residual r

\* What the device may report to any command, and to the first command
\* after power on.
ErrorSenses == {SenseNoPaper, SenseNotReady, SenseInvalidField}
PowerOnSenses == {SenseUnitAttn}

\* scsi_usb_error_code / scsi_error_code: the 16-bit ASC/ASCQ, as a pair
scsi_error_code(rs) == <<rs[13], rs[14]>>

BadScsiTransientError(rs, jk) == Seen(rs[13], jk) \in {40, 41, 4, 58}

\* jk: what an uninitialised byte reads as
scsi_transient_error(rs, jk) == Seen(rs[13], jk) \in {40, 41, 4}

\* ------------------------------------------------------------ variables
VARIABLES
  transport,      \* "usb" (kv-s3105c) or "sg" (kv-ss905c)
  duplex,         \* --duplex
  num_pages,      \* -n
  block_size,     \* -b, after the adjustment of main
  pc,             \* position of main
  pageno,         \* outer loop counter of main
  page,           \* inner loop counter of main
  side,           \* 0 front, 1 back
  requestsense,   \* the caller's 20-byte sense buffer
  senseSrc,       \* where each byte of requestsense comes from
  retries,        \* loop counter of the scsi_command call in progress
  last,           \* the latest transport call: its CDB and what came of it
  result,         \* *result of the latest read_data (uint32_t)
  end_of_page,    \* *end_of_page / *eof of the latest read_data
  devRemaining,   \* device: bytes of the current image not yet delivered
  imgSize,        \* device: size of the current image
  g,              \* monitor.c: g.page and g.scanner_page
  window,         \* the window main (or the monitor) hands to set_windows
  windowbytes,    \* set_windows: its buffer of 6 + 2 + WINDOW_SIZE bytes
  reported,       \* report: the lines it has written to stderr
  hist            \* bookkeeping about the run (never read by the program)

vars == << transport, duplex, num_pages, block_size, pc, pageno, page,
           side, requestsense, senseSrc, retries, last, result, end_of_page,
           devRemaining, imgSize, g, window, windowbytes, reported, hist >>

\* ------------------------------------------------------------ USB bulk
\* What the bus does in the bulk transfers of one usb_send_command:
\*   cmd  : the command frame      "ok" | "fail"
\*   data : the data phase         "ok" | "hdr_only" (the 12-byte header and
\*          nothing more) | "short" (fewer than 12 bytes) | "fail"
\*   stat : the status transfer    "ok" | "fail"
UsbPhase(dir) ==
  { p \in [cmd : {"ok", "fail"}, data : {"ok", "hdr_only", "short", "fail"},
           stat : {"ok", "fail"}] :
      /\ p.cmd = "fail" => (p.data = "ok" /\ p.stat = "ok")
      /\ p.data \in {"short", "fail"} => p.stat = "ok"
      /\ dir = "none" => p.data = "ok"
      /\ dir = "out" => p.data \in {"ok", "fail"} }

UsbPhaseOk == [cmd |-> "ok", data |-> "ok", stat |-> "ok"]

\* a second try of a command frame that could not be sent
ResendUsbSendCommand(tag, dir, data_size, p, status_in, status_word) ==
  IF p.cmd = "fail"
  THEN [st |-> -3, status |-> status_in, data_size |-> data_size,
        xfers |-> << <<tag, "cmd">>, <<tag, "cmd">> >>]
  ELSE [st |-> 0, status |-> status_word, data_size |-> data_size,
        xfers |-> << <<tag, "cmd">>, <<tag, "status">> >>]

\* a transport that takes every status for GOOD
DeafUsbSendCommand(tag, dir, data_size, p, status_in, status_word) ==
  [st |-> 0, status |-> GOOD, data_size |-> data_size,
   xfers |-> << <<tag, "cmd">>, <<tag, "status">> >>]

BadUsbSendCommand(tag, dir, data_size, p, status_in, status_word) ==
  IF p.cmd = "fail"
  THEN [st |-> -2, status |-> status_in, data_size |-> data_size,
        xfers |-> << <<tag, "cmd">> >>]
  ELSE [st |-> 0, status |-> status_word, data_size |-> data_size,
        xfers |-> << <<tag, "cmd">>, <<tag, "status">> >>]

\* usb_send_command: st is its return value, status is r->status afterwards,
\* data_size is c->data_size afterwards, xfers the bulk transfers made.
usb_send_command(tag, dir, data_size, p, status_in, status_word) ==
  IF p.cmd = "fail"
  THEN [st |-> -3, status |-> status_in, data_size |-> data_size,
        xfers |-> << <<tag, "cmd">> >>]
  ELSE IF dir = "in" /\ p.data \in {"fail", "short"}
  THEN [st |-> -2, status |-> CHECK_CONDITION, data_size |-> 0,
        xfers |-> << <<tag, "cmd">>, <<tag, "data_in">> >>]
  ELSE IF dir = "out" /\ p.data = "fail"
  THEN [st |-> -2, status |-> status_in, data_size |-> data_size,
        xfers |-> << <<tag, "cmd">>, <<tag, "data_out">> >>]
  ELSE LET x == << <<tag, "cmd">> >> \o
                (IF dir = "in" THEN << <<tag, "data_in">> >>
                 ELSE IF dir = "out" THEN << <<tag, "data_out">> >>
                 ELSE << >>) \o
                << <<tag, "status">> >>
       IN  IF p.stat = "fail"
           THEN [st |-> -1, status |-> CHECK_CONDITION,
                 data_size |-> data_size, xfers |-> x]
           ELSE [st |-> 0, status |-> status_word,
                 data_size |-> data_size, xfers |-> x]

\* The scratch buffer after an inbound data phase that brought only the
\* header: the CDB copied behind the header, the rest of the 24 zeroed
\* bytes, then memory nobody wrote.
Leftover(cdb, n) ==
  [i \in 1 .. n |->
     IF i <= Len(cdb) THEN cdb[i] ELSE IF i <= MAX_CMD_SIZE THEN 0 ELSE Indet]

LeftoverSrc(cdb, n) ==
  [i \in 1 .. n |->
     IF i <= Len(cdb) THEN "cdb" ELSE IF i <= MAX_CMD_SIZE THEN "zero"
     ELSE "uninit"]

RequestSenseCdb == <<3, 0, 0, 0, RESPONSE_SIZE, 0>>

\* memset(requestsense, 0, RESPONSE_SIZE)
UsbClearSense(rs) ==
  [i \in SenseIdx |-> IF i <= RESPONSE_SIZE THEN 0 ELSE rs[i]]

UsbClearSrc(src) ==
  [i \in SenseIdx |-> IF i <= RESPONSE_SIZE THEN "zero" ELSE src[i]]

\* send_command of kvs3105usb.c.  io.first / io.second: the bus in the
\* caller's command and in REQUEST SENSE; io.dev: the device's answer
\* (status, sense, reply data).
send_command(cdb, dir, data_length, rs, src, io) ==
  LET rs0   == UsbClearSense(rs)
      src0  == UsbClearSrc(src)
      word  == IF io.dev.status = "good" THEN GOOD ELSE CHECK_CONDITION
      first == usb_send_command("cmd", dir, data_length, io.first, 0, word)
      data  == IF dir # "in" \/ data_length > MaxDecodedReply THEN << >>
               ELSE IF io.first.data = "ok" THEN io.dev.data
               ELSE Leftover(cdb, data_length)
      base  == [ret |-> 0, sense |-> rs0, src |-> src0, data |-> << >>,
                xfers |-> first.xfers, cdb |-> cdb, len |-> data_length,
                attempts |-> 1]
  IN  IF first.st = -2 THEN [base EXCEPT !.ret = 3]
      ELSE IF first.st < -1 THEN [base EXCEPT !.ret = 1]
      ELSE IF first.status # 0
      THEN LET second == usb_send_command("sense", "in", RESPONSE_SIZE,
                                          io.second, first.status, GOOD)
               both   == [base EXCEPT !.data = data,
                                      !.xfers = first.xfers \o second.xfers]
           IN  IF second.st < -1 \/ second.data_size = 0
               THEN [both EXCEPT !.ret = 1]
               ELSE [both EXCEPT
                       !.ret = 2,
                       !.sense = [i \in SenseIdx |->
                          IF i > RESPONSE_SIZE THEN rs[i]
                          ELSE IF io.second.data = "ok" THEN io.dev.sense[i]
                          ELSE Leftover(RequestSenseCdb, RESPONSE_SIZE)[i]],
                       !.src = [i \in SenseIdx |->
                          IF i > RESPONSE_SIZE THEN src[i]
                          ELSE IF io.second.data = "ok" THEN "fresh"
                          ELSE LeftoverSrc(RequestSenseCdb, RESPONSE_SIZE)[i]]]
      ELSE [base EXCEPT !.data = data]

\* ---------------------------------------------------------- SCSI generic
\* One pass through the retry loop of scsi_command of kvss905c.c.
\*   a.ioctl  : "ok" | "fail"      what ioctl(SG_IO) returns
\*   a.sb_len : how many sense bytes the driver wrote to requestsense
\*   a.dev    : the device's answer
\* ret = -1 stands for `continue`: another pass follows.
\* budget: how many passes the loop makes at most
ScsiAttemptWithin(budget, cdb, dir, data_length, rs, src, n, a) ==
  LET base == [ret |-> 0, sense |-> rs, src |-> src, data |-> << >>,
               xfers |-> << >>, cdb |-> cdb, len |-> data_length,
               attempts |-> n + 1]
  IN  IF a.ioctl = "fail" THEN [base EXCEPT !.ret = 1]
      ELSE IF a.dev.status # "good"
      THEN LET rs1  == [i \in SenseIdx |->
                          IF i <= a.sb_len THEN a.dev.sense[i] ELSE rs[i]]
               src1 == [i \in SenseIdx |->
                          IF i <= a.sb_len THEN "fresh" ELSE src[i]]
               got  == [base EXCEPT !.sense = rs1, !.src = src1]
           IN  IF scsi_transient_error(rs1, a.junk)
               THEN [got EXCEPT !.ret = IF n + 1 < budget THEN -1 ELSE 2]
               ELSE [got EXCEPT !.ret = 2]
      ELSE [base EXCEPT
              !.data = IF dir = "in" /\ data_length <= MaxDecodedReply
                       THEN a.dev.data ELSE << >>]

\* the loop with one pass more, and with one pass less
BadScsiAttempt(cdb, dir, data_length, rs, src, n, a) ==
  ScsiAttemptWithin(kScsiAttempts + 1, cdb, dir, data_length, rs, src, n, a)

EarlyScsiAttempt(cdb, dir, data_length, rs, src, n, a) ==
  ScsiAttemptWithin(kScsiAttempts - 1, cdb, dir, data_length, rs, src, n, a)

\* a loop that also goes round again after a failed ioctl
SloppyScsiAttempt(cdb, dir, data_length, rs, src, n, a) ==
  LET r == ScsiAttemptWithin(kScsiAttempts, cdb, dir, data_length, rs, src,
                             n, a)
  IN  IF a.ioctl = "fail" /\ n + 1 < kScsiAttempts
      THEN [r EXCEPT !.ret = -1] ELSE r

\* for (retries = 0; retries < 5; ++retries)
scsi_attempt(cdb, dir, data_length, rs, src, n, a) ==
  ScsiAttemptWithin(kScsiAttempts, cdb, dir, data_length, rs, src, n, a)

\* ------------------------------------------------------------ the device
SenseNone == MkSense(0, Zero4, 0, 0)

\* An answer of the device to one command: its status, the sense data it
\* holds afterwards, the reply of the data phase, and, for the device's own
\* state, the image bytes it handed out and the image it made current.
Answer(status, sense, data, consumed, img) ==
  [status |-> status, sense |-> sense, data |-> data,
   consumed |-> consumed, img |-> img]

AnsGood == Answer("good", SenseNone, << >>, 0, 0)

AnsErrors == { Answer("check", s, << >>, 0, 0) : s \in ErrorSenses }

AnsPowerOn == { Answer("check", s, << >>, 0, 0) : s \in PowerOnSenses }

\* how many bytes a chunk the device cuts short brings, and how many the
\* smallest image leaves of its one chunk unused
ShortChunk == 50

PageSizes == {kMaxBuffer - ShortChunk, kMaxBuffer, kMaxBuffer + 1}

\* GET DATA BUFFER STATUS reply: window id at C index 4, available length
\* as three bytes at C indices 9..11
BufferStatus(wid, b9, b10, b11) ==
  [i \in 1 .. 12 |->
     CASE i = 5 -> wid [] i = 10 -> b9 [] i = 11 -> b10 [] i = 12 -> b11
       [] OTHER -> 0]

AnsSimple == {AnsGood} \cup AnsErrors

AnsPictureSize ==
  { Answer("good", SenseNone, [i \in 1 .. 16 |-> 0], 0, n) : n \in PageSizes }
    \cup AnsErrors

AnsBufferStatus ==
  { Answer("good", SenseNone, BufferStatus(0, t[1], t[2], t[3]), 0, 0) :
      t \in {<<0, 0, 0>>, <<0, 1, 0>>} }
    \cup AnsErrors

\* READ of image data, L bytes asked, rem bytes of the image left.  A full
\* chunk comes with good status; the chunk that exhausts the image comes
\* with end-of-medium + incorrect-length and the residual; a chunk that
\* fits exactly may come either way.  The device may also cut a chunk
\* short without ending the image (incorrect-length alone), or end the
\* image with a residual larger than what was asked for.
AnsReadImage(L, rem) ==
  (IF rem >= L THEN {Answer("good", SenseNone, << >>, L, 0)} ELSE {})
    \cup
  (IF rem <= L THEN {Answer("check", SenseEomIli(L - rem), << >>, rem, 0),
                     Answer("check", SenseEomIli(L + 1), << >>, 0, 0)}
   ELSE {})
    \cup
  (IF rem > ShortChunk
   THEN {Answer("check", SenseIli(L - ShortChunk), << >>, ShortChunk, 0)}
   ELSE {})
    \cup AnsErrors

\* Bus and device together, for either transport.
UsbIo(dir, answers) ==
  { io \in [first : UsbPhase(dir), second : UsbPhase("in"), dev : answers] :
      /\ io.first.cmd = "fail" => io.dev = CHOOSE d \in answers : TRUE
      /\ \/ io.second = UsbPhaseOk
         \/ /\ io.first.cmd = "ok"
            /\ io.first.data \in {"ok", "hdr_only"}
            /\ (io.first.stat = "fail" \/ io.dev.status # "good") }

SgIo(answers, rs) ==
  { [ioctl |-> "fail", sb_len |-> 0, dev |-> AnsGood, junk |-> 0] }
    \cup
  { a \in [ioctl : {"ok"}, sb_len : {0, RESPONSE_SIZE}, dev : answers,
           junk : JunkBytes \cup {0}] :
      /\ a.dev.status = "good" => (a.sb_len = 0 /\ a.junk = 0)
      /\ a.dev.status # "good" =>
           (a.junk # 0 <=> (a.sb_len = 0 /\ rs[13] = Indet)) }

\* At the start of a transport call what the buffer holds is old.
Stale(src) == [i \in SenseIdx |-> IF src[i] = "fresh" THEN "stale" ELSE src[i]]

\* What went wrong on the bus in one send_command: frame, the command
\* frame of the caller's command could not be sent; data, its data phase
\* failed (libusb error, or fewer bytes than a header); libusb, some bulk
\* transfer of the call, REQUEST SENSE included, ended in a libusb error.
BusOf(io) ==
  [frame  |-> io.first.cmd = "fail",
   data   |-> io.first.cmd = "ok" /\ io.first.data \in {"fail", "short"},
   libusb |-> \E ph \in {io.first, io.second} :
                ph.cmd = "fail" \/ ph.data = "fail" \/ ph.stat = "fail"]

\* no bulk transfers on the SCSI generic transport
NoBus == [frame |-> FALSE, data |-> FALSE, libusb |-> FALSE]

\* One transport call (USB) or one pass of the retry loop (SCSI generic):
\* every outcome o the bus and the device allow.  o.r is what the transport
\* hands back, o.dev the device's answer, o.clean whether the bus behaved,
\* o.bus what the bus did in the bulk transfers.
Exec(cdb, dir, data_length, answers0) ==
  LET answers == IF last.op = "none" THEN answers0 \cup AnsPowerOn
                 ELSE answers0
  IN
  IF transport = "usb"
  THEN { [r     |-> send_command(cdb, dir, data_length, requestsense,
                                 Stale(senseSrc), io),
          dev   |-> io.dev,
          seen  |-> io.first.cmd = "ok",
          bus   |-> BusOf(io),
          clean |-> io.first = UsbPhaseOk /\ io.second = UsbPhaseOk] :
         io \in UsbIo(dir, answers) }
  ELSE { [r     |-> scsi_attempt(cdb, dir, data_length, requestsense,
                                 IF retries = 0 THEN Stale(senseSrc)
                                 ELSE senseSrc, retries, a),
          dev   |-> a.dev,
          seen  |-> a.ioctl = "ok",
          bus   |-> NoBus,
          clean |-> a.ioctl = "ok" /\
                    (a.dev.status = "good" \/ a.sb_len = RESPONSE_SIZE)] :
         a \in SgIo(answers, requestsense) }

\* --------------------------------------------------------------- the CDBs
SetWindowCdb(transfer_length) ==
  << 36, 0, 0, 0, 0, 0, (transfer_length \div 65536) % 256,
     (transfer_length \div 256) % 256, transfer_length % 256, 0 >>

ScanCdb == << 27, 0, 0, 0, 0, 0 >>

GetDataBufferStatusCdb == << 52, 0, 0, 0, 0, 0, 0, 0, 12, 0 >>

KVS3105_READ_IMAGE == 0
KVS3105_READ_PICTURE_ELEMENT_SIZE == 128

\* a READ whose length is cut to 16 bits
ShortReadCdb(type, q1, q2, length) ==
  << 40, 0, type, 0, q1 % 256, q2 % 256, 0, (length \div 256) % 256,
     length % 256, 0 >>

\* kvs3105_read / kvss905c_read: q1 and q2 are uint8_t parameters
ReadCdb(type, q1, q2, length) ==
  << 40, 0, type, 0, q1 % 256, q2 % 256, (length \div 65536) % 256,
     (length \div 256) % 256, length % 256, 0 >>

WINDOW_SIZE == 64
WindowBytesLen == 6 + 2 + WINDOW_SIZE

\* ------------------------------------------------------------- decoding
\* get_data_buffer_status, USB: the 24-bit length at C indices 9..11
UsbBufferLength(buffer) ==
  << 0, buffer[10], buffer[11], buffer[12] >>

\* get_data_buffer_status, both transports: *window_id = buffer[4]
BufferWindowId(buffer) == buffer[5]

\* ntohl on a host of the given byte order
Ntohl(u, littleEndian) ==
  IF littleEndian THEN << u[4], u[3], u[2], u[1] >> ELSE u

\* get_data_buffer_status, SCSI generic: the same three bytes, then ntohl
SgBufferLength(buffer, littleEndian) ==
  Ntohl(<< 0, buffer[10], buffer[11], buffer[12] >>, littleEndian)

\* ------------------------------------------------------------- read_data
\* UNSAFE_MIN(kMaxBuffer, blen)
ReadLength(blen) == IF kMaxBuffer < blen THEN kMaxBuffer ELSE blen

KVS3105_BUFFER_SIZE == 65536

BadUsbReadData(ret, rs, length, old_result, old_eop) ==
  IF ret # 0
  THEN IF rs[1] = 240 /\ Bit(rs[3], 5) = 1
       THEN [ret |-> 0, result |-> U32FromNat(length),
             eop |-> Bit(rs[3], 6) = 1]
       ELSE [ret |-> 1, result |-> old_result, eop |-> old_eop]
  ELSE [ret |-> 0, result |-> U32FromNat(length), eop |-> FALSE]

\* kvs3105_read_data after kvs3105_read returned ret and left rs in the
\* sense buffer
kvs3105_read_data(ret, rs, length, old_result, old_eop) ==
  IF ret # 0
  THEN LET current_error == rs[1] = 240
           end_of_medium == Bit(rs[3], 6)
           incorrect_length_indicator == Bit(rs[3], 5)
       IN  IF current_error /\ incorrect_length_indicator = 1
           THEN [ret |-> 0,
                 result |-> U32Sub(U32FromNat(length),
                                   << rs[4], rs[5], rs[6], rs[7] >>),
                 eop |-> end_of_medium = 1]
           ELSE [ret |-> 1, result |-> old_result, eop |-> old_eop]
  ELSE [ret |-> 0, result |-> U32FromNat(length), eop |-> FALSE]

BadSgReadData(ret, rs, length, old_result, old_eop) ==
  IF ret # 0
  THEN IF rs[1] = 240 /\ rs[3] = 96
       THEN [ret |-> 0, result |-> U32FromNat(length), eop |-> TRUE]
       ELSE [ret |-> 1, result |-> old_result, eop |-> old_eop]
  ELSE [ret |-> 0, result |-> U32FromNat(length), eop |-> FALSE]

\* kvss905c_read_data after kvss905c_read returned ret
kvss905c_read_data(ret, rs, length, old_result, old_eop) ==
  IF ret # 0
  THEN IF rs[1] = 240 /\ rs[3] = 96
       THEN [ret |-> 0,
             result |-> U32Sub(U32FromNat(length),
                               << rs[4], rs[5], rs[6], rs[7] >>),
             eop |-> TRUE]
       ELSE [ret |-> 1, result |-> old_result, eop |-> old_eop]
  ELSE [ret |-> 0, result |-> U32FromNat(length), eop |-> FALSE]

read_data(ret, rs, length, old_result, old_eop) ==
  IF transport = "usb"
  THEN kvs3105_read_data(ret, rs, length, old_result, old_eop)
  ELSE kvss905c_read_data(ret, rs, length, old_result, old_eop)

\* ------------------------------------------------------- error report
\* uint16_t scsi_usb_error_code
scsi_usb_error_code(rs) == rs[13] * 256 + rs[14]

\* The table of kvs3105_strerror: sense key, error code, description.
ErrorTable ==
  {<< 0, 0, "Sense code 0 returned" >>,
     << 2, 0, "Not ready" >>,
     << 2, 1025, "Logical unit is in process of becoming ready" >>,
     << 2, 1152, "Document lead door open" >>,
     << 2, 1153, "Document discharge door open" >>,
     << 2, 1154, "Post imprinter door open" >>,
     << 2, 32769, "Scanner stopped" >>,
     << 2, 32770, "ADF stopped" >>,
     << 3, 14848, "Out of paper" >>,
     << 3, 32769, "Jammed at document lead" >>,
     << 3, 32770, "Jammed at document discharge 1" >>,
     << 3, 32771, "Jammed at document discharge 2" >>,
     << 3, 32772, "Document internal rest" >>,
     << 3, 32774, "Jammed at document feed 1" >>,
     << 3, 32775, "Jammed at document feed 2" >>,
     << 3, 32776, "Jammed at document feed 3" >>,
     << 3, 32777, "Jammed at document feed 4" >>,
     << 3, 32778, "Skew error" >>,
     << 3, 32779, "Minimum media error" >>,
     << 3, 32780, "Media length error" >>,
     << 3, 32781, "Double feed error" >>,
     << 3, 32782, "Barcode error" >>,
     << 4, 2176, "Internal parameter error" >>,
     << 4, 2177, "Internal DMA error" >>,
     << 4, 2178, "Internal command error" >>,
     << 4, 32899, "Internal communication error" >>,
     << 4, 17536, "Internal RAM error" >>,
     << 4, 17537, "Internal EEPROM error" >>,
     << 4, 17538, "FPGA error" >>,
     << 4, 18176, "SCSI parity error" >>,
     << 4, 32769, "Lamp failure with regular temperature" >>,
     << 4, 32770, "Document size detect error" >>,
     << 4, 32772, "Document hopper error" >>,
     << 4, 32773, "Document sensor adjust error" >>,
     << 5, 6656, "Parameter list length error" >>,
     << 5, 8192, "Invalid command op code" >>,
     << 5, 9216, "Invalid field in CDB" >>,
     << 5, 9472, "Logical unit not supported" >>,
     << 5, 9728, "Invalid field in parameter list" >>,
     << 5, 11265, "Too many windows" >>,
     << 5, 11266, "Invalid window combination" >>,
     << 5, 11392, "Out of memory" >>,
     << 5, 11393, "No back scanning unit" >>,
     << 5, 11394, "No imprinter unit" >>,
     << 5, 11395, "Pointer position error" >>,
     << 5, 11396, "Out of scanning page limit" >>,
     << 5, 11397, "Out of scanning length limit" >>,
     << 5, 11398, "Out of scanning resolution limit" >>,
     << 5, 11399, "Out of scanning line cycle limit" >>,
     << 5, 15616, "Invalid bits in identity message" >>,
     << 6, 10496, "Unit attention" >>,
     << 6, 6912, "Sync data transfer error" >>,
     << 6, 17152, "Message error" >>,
     << 6, 18688, "Invalid message error" >>,
     << 6, 32769, "Image data transfer error" >>}

NULL == "NULL"

\* a lookup that takes the whole of byte 2 for the sense key
UnmaskedStrerror(rs) ==
  LET hits == { e \in ErrorTable :
                  e[1] = rs[3] /\ e[2] = scsi_usb_error_code(rs) }
  IN  IF hits = {} THEN NULL ELSE (CHOOSE e \in hits : TRUE)[3]

\* kvs3105_strerror
kvs3105_strerror(rs) ==
  LET error == scsi_usb_error_code(rs)
      sense == rs[3] % 16
      hits  == { e \in ErrorTable : e[1] = sense /\ e[2] = error }
  IN  IF hits = {} THEN NULL ELSE (CHOOSE e \in hits : TRUE)[3]

\* report: the lines it prints, the error code and, if there is one, the
\* description.
report(rs) ==
  LET msg  == kvs3105_strerror(rs)
      code == scsi_usb_error_code(rs)
  IN  << code >> \o (IF msg # NULL THEN << msg >> ELSE << >>)

\* ------------------------------------------------------------ the window
\* The fields of struct kvs3105_window / struct kvss905c_window.
WindowFields ==
  {"xres", "yres", "x1", "y1", "width", "length", "brighness", "threshold",
   "contrast", "composition", "bpp", "halftone_pattern", "reverse_image",
   "bit_ordering", "compression_type", "compression_argument", "flatbed",
   "stop_on_skew", "disable_buffering", "continue_on_double_feed",
   "mirror_image", "emphasis", "gamma_correction", "multi_colour_drop_out",
   "lamp", "double_feed_sensitivity", "remove_moire", "subsample",
   "colour_match", "document_size", "document_width", "document_length",
   "ahead_disable", "deskew", "double_feed_detector", "full_size_scan",
   "feed_slow", "remove_shadow", "number_of_pages_to_scan", "threshold_mode",
   "separation_mode", "standard_white_level", "blackwhite_noise_reduction",
   "noise_reduction", "manual_feed_mode", "additional_space_top",
   "additional_space_bottom", "detect_separation_sheet",
   "halt_at_separation_sheet", "detect_control_sheet", "stop_mode",
   "red_chroma", "blue_chroma"}

KVS3105_COMPOSITION_COLOUR == 5

\* The uint32_t fields; a value of theirs is kept as its two 16-bit
\* halves, << high, low >>.
WindowFields32 ==
  {"x1", "y1", "width", "length", "document_width", "document_length"}

W32(n) == << n \div 65536, n % 65536 >>

\* memset(window, 0, sizeof(struct kvs3105_window))
ZeroWindow ==
  [f \in WindowFields |-> IF f \in WindowFields32 THEN W32(0) ELSE 0]

\* kvs3105_window_init
kvs3105_window_init ==
  [ZeroWindow EXCEPT
     !.composition = KVS3105_COMPOSITION_COLOUR, !.bpp = 24,
     !.xres = 300, !.yres = 300, !.number_of_pages_to_scan = 255,
     !.emphasis = 240, !.document_size = 7, !.double_feed_detector = 1,
     !.subsample = 3, !.flatbed = 0,
     !.document_width = W32(10200), !.width = W32(10200),
     !.document_length = W32(13200), !.length = W32(13200),
     !.compression_type = 129, !.compression_argument = 85]

\* kvss905c_window_init
kvss905c_window_init ==
  [ZeroWindow EXCEPT
     !.composition = KVS3105_COMPOSITION_COLOUR, !.bpp = 24,
     !.xres = 300, !.yres = 300, !.number_of_pages_to_scan = 255,
     !.emphasis = 47, !.document_size = 7, !.double_feed_detector = 1,
     !.subsample = 3,
     !.document_width = W32(10200), !.width = W32(10200),
     !.document_length = W32(13200), !.length = W32(13200),
     !.compression_type = 129, !.compression_argument = 85]

\* a window that always asks for the pages of the whole run
WholeRunPagesToScan(b, n) == IF n > 254 THEN 255 ELSE n

\* window.number_of_pages_to_scan as main sets it from -b and -n
PagesToScan(b, n) == IF b > 254 THEN (IF n > 254 THEN 255 ELSE n) ELSE b

\* The window main builds with the default options (letter size, quality
\* 90, 400 dpi, JPEG, no flatbed) and the given -b and -n.
MainWindow(tr, b, n) ==
  IF tr = "usb"
  THEN [kvs3105_window_init EXCEPT
          !.compression_argument = 90, !.compression_type = 129,
          !.emphasis = 240, !.subsample = 0, !.xres = 400, !.yres = 400,
          !.flatbed = 0, !.number_of_pages_to_scan = PagesToScan(b, n)]
  ELSE [kvss905c_window_init EXCEPT
          !.number_of_pages_to_scan = PagesToScan(b, n)]

\* The window of the monitor: attach, then readpages.
MonitorWindow ==
  [kvs3105_window_init EXCEPT
     !.compression_argument = 90, !.emphasis = 240, !.subsample = 0,
     !.xres = 400, !.yres = 400, !.number_of_pages_to_scan = 255]

\* a | b on non-negative ints
RECURSIVE BitOr(_, _)
BitOr(a, b) ==
  IF a = 0 THEN b
  ELSE IF b = 0 THEN a
  ELSE (IF a % 2 = 1 \/ b % 2 = 1 THEN 1 ELSE 0)
         + 2 * BitOr(a \div 2, b \div 2)

\* x << n
Shl(x, n) == x * (2 ^ n)

\* a | b | c ... of the members of a sequence
RECURSIVE OrAll(_)
OrAll(s) == IF s = << >> THEN 0 ELSE BitOr(Head(s), OrAll(Tail(s)))

\* The macros of window_serialise: what each appends to the output.
U8I(x) == << x % 256 >>
U8(x) == << x % 256 >>
U32(x) ==
  << (x[1] \div 256) % 256, x[1] % 256, (x[2] \div 256) % 256, x[2] % 256 >>

\* U16 without htons
BadU16(x) == << x % 256, (x \div 256) % 256 >>

U16(x) == << (x \div 256) % 256, x % 256 >>

\* a serialiser that loses the last byte
ShortWindowSerialise(output, w) ==
  [bytes |-> SubSeq(output, 1, Len(output) - 1), j |-> Len(output) - 1]

\* kvs3105_window_serialise / kvss905c_window_serialise: output is what the
\* memory held before, j the value returned.  The six bytes skipped by
\* j += 6 keep what the memory held.
window_serialise(output, w) ==
  LET head == U8I(0) \o U8I(0) \o U16(w.xres) \o U16(w.yres) \o U32(w.x1)
              \o U32(w.y1) \o U32(w.width) \o U32(w.length)
              \o U8(w.brighness) \o U8(w.threshold) \o U8(w.contrast)
              \o U8(w.composition) \o U8(w.bpp) \o U16(w.halftone_pattern)
              \o U8I(IF w.reverse_image # 0 THEN 128 ELSE 0)
              \o U16(w.bit_ordering) \o U8(w.compression_type)
              \o U8(w.compression_argument)
      gap  == SubSeq(output, Len(head) + 1, Len(head) + 6)
      tail == U8I(0)
              \o U8I(OrAll(<< Shl(w.flatbed, 7), Shl(w.stop_on_skew, 4),
                              Shl(w.disable_buffering, 3),
                              Shl(w.continue_on_double_feed, 0) >>))
              \o U8(w.mirror_image) \o U8(w.emphasis)
              \o U8(w.gamma_correction)
              \o U8I(OrAll(<< Shl(w.multi_colour_drop_out, 7),
                              Shl(w.lamp, 4),
                              Shl(w.double_feed_sensitivity, 0) >>))
              \o U8I(OrAll(<< Shl(w.remove_moire, 6), Shl(w.subsample, 4),
                              Shl(w.colour_match, 0) >>))
              \o U8(w.document_size) \o U32(w.document_width)
              \o U32(w.document_length)
              \o U8I(OrAll(<< Shl(w.ahead_disable, 7), Shl(w.deskew, 5),
                              Shl(w.double_feed_detector, 4),
                              Shl(w.full_size_scan, 2), Shl(w.feed_slow, 1),
                              Shl(w.remove_shadow, 0) >>))
              \o U8(w.number_of_pages_to_scan) \o U8(w.threshold_mode)
              \o U8(w.separation_mode) \o U8(w.standard_white_level)
              \o U8I(OrAll(<< Shl(w.blackwhite_noise_reduction, 7),
                              Shl(w.noise_reduction, 0) >>))
              \o U8I(OrAll(<< Shl(w.manual_feed_mode, 6),
                              Shl(w.additional_space_top, 5),
                              Shl(w.additional_space_bottom, 4),
                              Shl(w.detect_separation_sheet, 3),
                              Shl(w.halt_at_separation_sheet, 2),
                              Shl(w.detect_control_sheet, 1) >>))
              \o U8(w.stop_mode)
      bytes == head \o gap \o tail
  IN  [bytes |-> bytes, j |-> Len(bytes)]

\* windowbytes as set_windows finds it
JunkWindowBytes == [i \in 1 .. WindowBytesLen |-> Indet]

\* a set_windows that leaves out the memset
UnclearedWindowBytes(old) == old

\* memset(windowbytes, 0, sizeof(windowbytes))
ClearedWindowBytes(old) == [i \in 1 .. Len(old) |-> 0]

\* set_windows up to its first send: the buffer it sends, and whether the
\* length check called abort().
FrontWindowBytes(old, w) ==
  LET zeroed == ClearedWindowBytes(old)
      ser    == window_serialise(SubSeq(zeroed, 9, Len(zeroed)), w)
  IN  [abort |-> ser.j # WINDOW_SIZE,
       bytes |-> SubSeq(zeroed, 1, 6) \o U16(WINDOW_SIZE) \o ser.bytes]

\* a back window without its marker
PlainBackWindowBytes(front) == front

\* windowbytes[8] = 0x80
BackWindowBytes(front) == [front EXCEPT ![9] = 128]

\* ------------------------------------------------------------------ main
\* The block size main works with (kvscanner.c: -b above 254 means one
\* block of all pages).
BlockSize(b, n) == IF b > 254 THEN n ELSE b

\* The locals of main that the loops read and write.
Locals ==
  [duplex |-> duplex, num_pages |-> num_pages, block_size |-> block_size,
   pageno |-> pageno, page |-> page, side |-> side, result |-> result,
   eop |-> end_of_page, g |-> g, windowbytes |-> windowbytes]

Indet4 == << Indet, Indet, Indet, Indet >>

\* After return from main its loop counters and buffers are gone; the
\* session's options are kept for reference.
ExitLocals ==
  [duplex |-> duplex, num_pages |-> num_pages, block_size |-> block_size,
   pageno |-> 0, page |-> 0, side |-> 0, result |-> Indet4, eop |-> FALSE,
   g |-> g, windowbytes |-> JunkWindowBytes]

Goto(pcv, l) ==
  /\ pc' = pcv
  /\ duplex' = l.duplex
  /\ num_pages' = l.num_pages
  /\ block_size' = l.block_size
  /\ pageno' = l.pageno
  /\ page' = l.page
  /\ side' = l.side
  /\ result' = l.result
  /\ end_of_page' = l.eop
  /\ g' = l.g
  /\ windowbytes' = l.windowbytes
  /\ UNCHANGED << transport, window, reported >>

BadOuterHead(l) ==
  IF l.pageno < l.num_pages
  THEN [pc |-> "setwin_front", l |-> l]
  ELSE [pc |-> "done", l |-> ExitLocals]

\* an outer loop that configures the windows once only
ScanOuterHead(l) ==
  IF l.pageno < l.num_pages
  THEN [pc |-> IF l.pageno = 0 THEN "setwin_front" ELSE "scan", l |-> l]
  ELSE [pc |-> "done", l |-> ExitLocals]

\* Head of the outer loop: another block, or the end of main.
OuterHead(l) ==
  IF l.pageno < l.num_pages
  THEN [pc |-> IF transport = "usb" THEN "reset" ELSE "setwin_front", l |-> l]
  ELSE [pc |-> "done", l |-> ExitLocals]

\* Head of the inner loop: another image of the block, or the block's end.
InnerHead(l) ==
  IF l.page < l.block_size
  THEN [pc |-> "size", l |-> l]
  ELSE OuterHead([l EXCEPT !.pageno = @ + l.block_size])

BadNextPageSide(dup, pg, sd) ==
  IF dup THEN (IF sd = 1 THEN [page |-> pg + 1, side |-> 1]
               ELSE [page |-> pg, side |-> 1])
  ELSE [page |-> pg + 1, side |-> sd]

\* a loop end that takes the next page index with every image
EagerNextPageSide(dup, pg, sd) ==
  IF dup THEN [page |-> pg + 1, side |-> 1 - sd]
  ELSE [page |-> pg + 1, side |-> sd]

\* The end of the inner loop body: which page and side come next.
NextPageSide(dup, pg, sd) ==
  IF dup THEN (IF sd = 1 THEN [page |-> pg + 1, side |-> 0]
               ELSE [page |-> pg, side |-> 1])
  ELSE [page |-> pg + 1, side |-> sd]

\* For a call that is no read_data.
NoRead ==
  [result |-> Zero4, eop |-> FALSE, reads |-> 0, sum |-> 0, honest |-> TRUE,
   size |-> 0]

\* (hist.blen is the size of the buffer the caller hands to read_data.)
\* (While the latest call is the SET WINDOW of the front window, hist.prev
\* is the same record of the call before it; hist.drained is the number of
\* images retrieved since the session began.)
\* What is kept of the latest driver call: api is what the driver function
\* returned (-1: the transport is about to retry, -2: the wait polls again);
\* img is the number of images of the block retrieved before the call.
\* For read_data: result and eop are its
\* outputs, reads and sum count the READs of the image so far and the
\* bytes they reported, size is the image's size in the device, honest
\* tells that bus and device delivered every chunk of it as asked.
MkLast(op, api, r, rd) ==
  [op |-> op, api |-> api, ret |-> r.ret, cdb |-> r.cdb, len |-> r.len,
   attempts |-> r.attempts, data |-> r.data, xfers |-> r.xfers,
   img |-> hist.imagesDone,
   result |-> rd.result, eop |-> rd.eop, reads |-> rd.reads,
   sum |-> rd.sum, honest |-> rd.honest, size |-> rd.size]

NoPrev == [op |-> "none", api |-> 0, cdb |-> << >>, xfers |-> << >>]

TransientSenses == {SenseNotReady, SenseUnitAttn}

\* The bus or the device did something else than deliver what was asked
\* for (or end the image) at the first try.
\* The device delivered what was asked for, or ended the image with the
\* true residual.
Faithful(d, len) ==
  \/ d.status = "good"
  \/ /\ d.sense[3] = 96
     /\ << d.sense[4], d.sense[5], d.sense[6], d.sense[7] >>
          = U32FromNat(len - d.consumed)

Anomalous(o) ==
  IF retries = 0
  THEN ~ (o.clean /\ o.seen /\ Faithful(o.dev, o.r.len))
  ELSE ~ (o.clean /\ o.seen)

\* Runs are explored with at most MaxAnomalies calls that go on after an
\* anomaly, and up to the call that ends the run.  A run that starts with
\* the count above MaxAnomalies is explored as long as nothing goes wrong.
WithinBudget(o) ==
  ~Anomalous(o) \/ hist.anomalies < MaxAnomalies

EndExplored == hist.anomalies <= MaxAnomalies

\* The transport's part of every step, and the bookkeeping all steps share.
Commit(op, o, api, rd, h) ==
  /\ requestsense' = o.r.sense
  /\ senseSrc' = o.r.src
  /\ retries' = IF o.r.ret = -1 THEN retries + 1 ELSE 0
  /\ last' = MkLast(op, api, o.r, rd)
  /\ hist' = [h EXCEPT
       !.allOk = h.allOk /\ api <= 0,
       !.clean = (IF retries = 0 THEN TRUE ELSE h.clean) /\ o.clean,
       !.transients =
          (IF retries = 0 THEN 0 ELSE h.transients) +
          (IF o.seen /\ o.clean /\ o.dev.status = "check"
              /\ o.dev.sense \in TransientSenses THEN 1 ELSE 0),
       !.lastDev = IF o.seen THEN o.dev.status ELSE "none",
       !.lastAsc = IF o.seen /\ o.dev.status = "check"
                   THEN scsi_error_code(o.dev.sense) ELSE << 0, 0 >>,
       !.anomalies = @ + (IF Anomalous(o) /\ api <= 0 THEN 1 ELSE 0),
       !.bus = o.bus,
       !.delivered = o.clean,
       !.prev = IF op # "setwin_front" THEN NoPrev
                ELSE IF retries = 0
                THEN [op |-> last.op, api |-> last.api, cdb |-> last.cdb,
                      xfers |-> last.xfers]
                ELSE h.prev]

ExitHist(h) ==
  [h EXCEPT !.imagesDone = 0, !.reads = 0, !.sum = 0, !.waited = FALSE,
            !.sized = FALSE, !.honest = TRUE, !.cancel = FALSE]

\* The driver call failed: main returns 2.
Abort(op, o, api) ==
  /\ EndExplored
  /\ Commit(op, o, api, NoRead, ExitHist(hist))
  /\ Goto("aborted", ExitLocals)
  /\ devRemaining' = 0
  /\ imgSize' = 0

\* scsi_command goes round its loop again.
Retry(op, o) ==
  /\ WithinBudget(o)
  /\ Commit(op, o, -1, NoRead, hist)
  /\ Goto(pc, Locals)
  /\ UNCHANGED << devRemaining, imgSize >>

BadSimple(op, cdb, dir, len, goodPc) ==
  \E o \in Exec(cdb, dir, len, AnsSimple) :
    IF o.r.ret = -1 THEN Retry(op, o)
    ELSE /\ WithinBudget(o)
         /\ Commit(op, o, o.r.ret, NoRead, hist)
         /\ Goto(goodPc, Locals)
         /\ UNCHANGED << devRemaining, imgSize >>

\* A driver call that passes the transport's return value on.
Simple(op, cdb, dir, len, goodPc) ==
  \E o \in Exec(cdb, dir, len, AnsSimple) :
    IF o.r.ret = -1 THEN Retry(op, o)
    ELSE IF o.r.ret # 0 THEN Abort(op, o, o.r.ret)
    ELSE /\ WithinBudget(o)
         /\ Commit(op, o, 0, NoRead, hist)
         /\ Goto(goodPc, Locals)
         /\ UNCHANGED << devRemaining, imgSize >>

\* kvs3105_reset_windows
ResetWindows ==
  /\ pc = "reset"
  /\ Simple("reset", SetWindowCdb(0), "none", 0, "setwin_front")

\* set_windows calls abort(): the process is gone.
Crash ==
  /\ pc' = "crashed"
  /\ UNCHANGED << transport, duplex, num_pages, block_size, pageno, page,
                  side, requestsense, senseSrc, retries, last, result,
                  end_of_page, devRemaining, imgSize, g, window, windowbytes,
                  reported, hist >>

\* One send of set_windows: the SET WINDOW command with the WindowBytesLen
\* bytes of windowbytes as its data.  failPc is where a non-zero result
\* leads (main returns 2, readpages returns); windowbytes then stays as
\* it was sent.
SendWindow(op, bytes, goodPc, failPc) ==
  LET l == [Locals EXCEPT !.windowbytes = bytes]
  IN  \E o \in Exec(SetWindowCdb(Len(bytes)), "out", Len(bytes), AnsSimple) :
        IF o.r.ret = -1
        THEN /\ WithinBudget(o)
             /\ Commit(op, o, -1, NoRead, hist)
             /\ Goto(pc, l)
             /\ UNCHANGED << devRemaining, imgSize >>
        ELSE IF o.r.ret # 0
        THEN /\ EndExplored
             /\ Commit(op, o, o.r.ret, NoRead, ExitHist(hist))
             /\ Goto(failPc,
                     IF failPc = "aborted"
                     THEN [ExitLocals EXCEPT !.windowbytes = bytes]
                     ELSE [Locals EXCEPT !.result = Indet4, !.eop = FALSE,
                                         !.windowbytes = bytes])
             /\ devRemaining' = 0
             /\ imgSize' = 0
        ELSE /\ WithinBudget(o)
             /\ Commit(op, o, 0, NoRead, hist)
             /\ Goto(goodPc, l)
             /\ UNCHANGED << devRemaining, imgSize >>

\* set_windows up to and with its first send, the front window
SetWindowsFront(goodPc, failPc) ==
  LET fw == FrontWindowBytes(windowbytes, window)
  IN  IF fw.abort THEN Crash
      ELSE SendWindow("setwin_front", fw.bytes, goodPc, failPc)

\* ... and under duplex the second send, the back window
SetWindowsBack(goodPc, failPc) ==
  SendWindow("setwin_back", BackWindowBytes(windowbytes), goodPc, failPc)

\* kvs3105_set_windows / kvss905c_set_windows called by main
SetWindowFront ==
  /\ pc = "setwin_front"
  /\ SetWindowsFront(IF duplex THEN "setwin_back" ELSE "scan", "aborted")

SetWindowBack ==
  /\ pc = "setwin_back"
  /\ SetWindowsBack("scan", "aborted")

\* kvs3105_scan / kvss905c_scan, then the head of the inner loop
Scan ==
  /\ pc = "scan"
  /\ \E o \in Exec(ScanCdb, "none", 0, AnsSimple) :
       IF o.r.ret = -1 THEN Retry("scan", o)
       ELSE IF o.r.ret # 0 THEN Abort("scan", o, o.r.ret)
       ELSE LET nxt == InnerHead([Locals EXCEPT !.page = 0, !.side = 0])
                h   == [hist EXCEPT !.imagesDone = 0, !.waited = FALSE,
                                    !.sized = FALSE]
            IN  /\ WithinBudget(o)
                /\ Commit("scan", o, 0, NoRead,
                          IF nxt.pc = "done" THEN ExitHist(h) ELSE h)
                /\ Goto(nxt.pc, nxt.l)
                /\ UNCHANGED << devRemaining, imgSize >>

\* kvs3105_picture_size / kvss905c_picture_size
PictureSize ==
  /\ pc = "size"
  /\ \E o \in Exec(ReadCdb(KVS3105_READ_PICTURE_ELEMENT_SIZE, page,
                           IF side # 0 THEN 128 ELSE 0, 16),
                   "in", 16, AnsPictureSize) :
       IF o.r.ret = -1 THEN Retry("size", o)
       ELSE IF o.r.ret # 0 THEN Abort("size", o, o.r.ret)
       ELSE /\ WithinBudget(o)
            /\ Commit("size", o, 0, NoRead, [hist EXCEPT !.sized = TRUE])
            /\ Goto("wait", Locals)
            /\ imgSize' = o.dev.img
            /\ devRemaining' = o.dev.img

\* a wait that takes a failed GET DATA BUFFER STATUS for "no data yet"
DeafDataBufferWaitOn(answers) ==
  /\ pc = "wait"
  /\ \E o \in Exec(GetDataBufferStatusCdb, "in", 12, answers) :
       IF o.r.ret = -1 THEN Retry("wait", o)
       ELSE /\ WithinBudget(o)
            /\ Commit("wait", o, -2, NoRead,
                      [hist EXCEPT !.waited = FALSE])
            /\ Goto("sleep", Locals)
            /\ UNCHANGED << devRemaining, imgSize >>

\* One poll of kvs3105_data_buffer_wait / kvss905c_data_buffer_wait, the
\* device answering with one of answers
DataBufferWaitOn(answers) ==
  /\ pc = "wait"
  /\ \E o \in Exec(GetDataBufferStatusCdb, "in", 12, answers) :
     \E le \in BOOLEAN :
       IF o.r.ret = -1 THEN Retry("wait", o)
       ELSE IF o.r.ret # 0
       THEN Abort("wait", o, IF transport = "usb" THEN o.r.ret ELSE 1)
       ELSE LET length == IF transport = "usb" THEN UsbBufferLength(o.r.data)
                          ELSE SgBufferLength(o.r.data, le)
            IN  /\ WithinBudget(o)
                /\ Commit("wait", o, IF length # Zero4 THEN 0 ELSE -2, NoRead,
                          [hist EXCEPT !.waited = (length # Zero4),
                                       !.cancel = @ /\ length = Zero4])
                /\ Goto(IF length # Zero4 THEN "read" ELSE "sleep", Locals)
                /\ UNCHANGED << devRemaining, imgSize >>

DataBufferWait == DataBufferWaitOn(AnsBufferStatus)

\* usleep between two polls of the wait
WaitSleep ==
  /\ pc = "sleep"
  /\ pc' = "wait"
  /\ UNCHANGED << transport, duplex, num_pages, block_size, pageno, page,
                  side, requestsense, senseSrc, retries, last, result,
                  end_of_page, devRemaining, imgSize, g, window, windowbytes,
                  reported, hist >>

\* main is inside data_buffer_wait
InWait == pc \in {"wait", "sleep"}

\* One kvs3105_read_data / kvss905c_read_data of the drain loop, and, at
\* end_of_page, the end of the inner loop body and the loop heads.
ReadDataWith(blen) ==
  /\ pc = "read"
  /\ LET L == ReadLength(blen)
     IN \E o \in Exec(ReadCdb(KVS3105_READ_IMAGE, page,
                              IF side # 0 THEN 128 ELSE 0, L),
                      "in", L,
                      AnsReadImage(L, devRemaining)) :
     \E jk \in (IF o.r.ret > 0 /\ \E i \in 1 .. 7 : o.r.sense[i] = Indet
                THEN JunkBytes ELSE {0}) :
       LET rs   == [i \in SenseIdx |-> Seen(o.r.sense[i], jk)]
           rd   == read_data(o.r.ret, rs, L, result, end_of_page)
           fair == o.clean /\ o.seen /\ retries = 0 /\ Faithful(o.dev, L)
           val  == IF U32IsSmall(rd.result) /\ U32Val(rd.result) <= L
                   THEN U32Val(rd.result) ELSE 0
           h1   == [hist EXCEPT
                      !.reads = @ + 1,
                      !.sum = @ + val,
                      !.honest = @ /\ fair]
           rdl  == [result |-> rd.result, eop |-> rd.eop, reads |-> h1.reads,
                    sum |-> h1.sum, honest |-> h1.honest, size |-> imgSize]
           nps  == NextPageSide(duplex, page, side)
           \* the buffers of the loop body end with it
           nxt  == InnerHead([Locals EXCEPT
                                !.page = nps.page, !.side = nps.side,
                                !.result = Indet4, !.eop = FALSE])
       IN
       IF o.r.ret = -1 THEN Retry("read", o)
       ELSE IF rd.ret # 0 THEN Abort("read", o, rd.ret)
       ELSE IF rd.eop
       THEN /\ WithinBudget(o)
            /\ Commit("read", o, 0, rdl,
                      LET h2 == [h1 EXCEPT !.imagesDone = @ + 1,
                                           !.drained = @ + 1,
                                           !.waited = FALSE, !.sized = FALSE,
                                           !.reads = 0, !.sum = 0,
                                           !.honest = TRUE]
                      IN  IF nxt.pc = "done" THEN ExitHist(h2) ELSE h2)
            /\ Goto(nxt.pc, nxt.l)
            /\ devRemaining' = 0
            /\ imgSize' = 0
       ELSE /\ WithinBudget(o)
            /\ Commit("read", o, 0, rdl, h1)
            /\ Goto("read", [Locals EXCEPT !.result = rd.result,
                                           !.eop = rd.eop])
            /\ devRemaining' = IF o.seen THEN devRemaining - o.dev.consumed
                               ELSE devRemaining
            /\ imgSize' = imgSize

\* main's call: read_data(..., buffer, sizeof(buffer), ...)
ReadData == ReadDataWith(KVS3105_BUFFER_SIZE)

\* The caller asks for the wait to be given up.  Nothing in either driver
\* or in main reads this.
CallerCancels ==
  /\ InWait
  /\ ~hist.cancel
  /\ hist' = [hist EXCEPT !.cancel = TRUE]
  /\ UNCHANGED << transport, duplex, num_pages, block_size, pc, pageno,
                  page, side, requestsense, senseSrc, retries, last, result,
                  end_of_page, devRemaining, imgSize, g, window,
                  windowbytes, reported >>

InitHist ==
  [imagesDone |-> 0, reads |-> 0, sum |-> 0, waited |-> FALSE,
   sized |-> FALSE, allOk |-> TRUE, honest |-> TRUE, anomalies |-> 0,
   clean |-> TRUE, transients |-> 0, lastDev |-> "none",
   lastAsc |-> << 0, 0 >>, cancel |-> FALSE, drained |-> 0, bus |-> NoBus,
   delivered |-> TRUE,
   prev |-> NoPrev, blen |-> KVS3105_BUFFER_SIZE]

\* The state at the first statement of the session, whatever its options.
StartRest(h) ==
  /\ pageno = 0
  /\ page = 0
  /\ side = 0
  /\ retries = 0
  /\ last = [op |-> "none", api |-> 0, ret |-> 0, cdb |-> << >>, len |-> 0,
             attempts |-> 0, data |-> << >>, xfers |-> << >>,
             img |-> 0, result |-> Zero4, eop |-> FALSE,
             reads |-> 0, sum |-> 0, honest |-> TRUE, size |-> 0]
  /\ result = Indet4
  /\ end_of_page = FALSE
  /\ devRemaining = 0
  /\ imgSize = 0
  /\ g = [page |-> 0, scanner_page |-> 0]
  /\ reported = << >>
  /\ hist = h

StartWith(h) ==
  /\ StartRest(h)
  /\ requestsense = [i \in SenseIdx |-> Indet]
  /\ senseSrc = [i \in SenseIdx |-> "uninit"]

Start == StartWith(InitHist) /\ windowbytes = JunkWindowBytes

Init ==
  /\ transport \in {"usb", "sg"}
  /\ duplex \in BOOLEAN
  /\ num_pages \in 1 .. MaxPages
  /\ \E b \in 0 .. MaxBlock :
       /\ block_size = BlockSize(b, num_pages)
       /\ window = MainWindow(transport, b, num_pages)
  /\ pc = IF transport = "usb" THEN "reset" ELSE "setwin_front"
  /\ Start

Next ==
  \/ ResetWindows
  \/ SetWindowFront
  \/ SetWindowBack
  \/ Scan
  \/ PictureSize
  \/ DataBufferWait
  \/ WaitSleep
  \/ ReadData

Spec == Init /\ [][Next]_vars

\* The session with a caller who may ask for the wait to end.  The process
\* keeps running: a step of main that is possible is eventually taken.
LiveNext == Next \/ CallerCancels

\* one duplex page, on either transport
LiveInit == Init /\ duplex /\ num_pages = 1 /\ block_size = 1

LiveSpec == LiveInit /\ [][LiveNext]_vars /\ WF_vars(Next)

\* ------------------------------------------------- monitor.c, readpages
\* The "read" command of the monitor: one SCAN, then front and back of
\* page after page until a driver call fails.  The runs explored end when
\* the monitor has read MaxWrapPages pages.
MaxWrapPages == 257
\* -b of the sessions that go past device page 255
WrapBlock == 255

\* Position of readpages in its loop body: base is the call, s the side.
MonPc(base, s) ==
  IF base = "size" THEN (IF s = 0 THEN "m_size0" ELSE "m_size1")
  ELSE IF base = "wait" THEN (IF s = 0 THEN "m_wait0" ELSE "m_wait1")
  ELSE IF base = "sleep" THEN (IF s = 0 THEN "m_sleep0" ELSE "m_sleep1")
  ELSE (IF s = 0 THEN "m_read0" ELSE "m_read1")

\* readpages: return after a failed driver call
MonReturn(op, o, api) ==
  /\ EndExplored
  /\ Commit(op, o, api, NoRead, ExitHist(hist))
  /\ Goto("m_returned", [Locals EXCEPT !.result = Indet4, !.eop = FALSE])
  /\ devRemaining' = 0
  /\ imgSize' = 0

\* readpages: a driver call whose non-zero result makes readpages return
MonSimple(op, cdb, dir, len, goodPc) ==
  \E o \in Exec(cdb, dir, len, AnsSimple) :
    IF o.r.ret # 0 THEN MonReturn(op, o, o.r.ret)
    ELSE /\ WithinBudget(o)
         /\ Commit(op, o, 0, NoRead, hist)
         /\ Goto(goodPc, Locals)
         /\ UNCHANGED << devRemaining, imgSize >>

\* g.scanner_page = 0, then kvs3105_reset_windows, whose result readpages
\* does not look at
MonResetWindows ==
  /\ pc = "m_reset"
  /\ \E o \in Exec(SetWindowCdb(0), "none", 0, AnsSimple) :
       /\ WithinBudget(o)
       /\ Commit("reset", o, o.r.ret, NoRead, hist)
       /\ Goto("m_setwin_front", [Locals EXCEPT !.g.scanner_page = 0])
       /\ UNCHANGED << devRemaining, imgSize >>

MonSetWindowFront ==
  /\ pc = "m_setwin_front"
  /\ SetWindowsFront("m_setwin_back", "m_returned")

MonSetWindowBack ==
  /\ pc = "m_setwin_back"
  /\ SetWindowsBack("m_scan", "m_returned")

MonScan ==
  /\ pc = "m_scan"
  /\ \E o \in Exec(ScanCdb, "none", 0, AnsSimple) :
       IF o.r.ret # 0 THEN MonReturn("scan", o, o.r.ret)
       ELSE /\ WithinBudget(o)
            /\ Commit("scan", o, 0, NoRead,
                      [hist EXCEPT !.imagesDone = 0, !.waited = FALSE,
                                   !.sized = FALSE])
            /\ Goto(MonPc("size", 0), Locals)
            /\ UNCHANGED << devRemaining, imgSize >>

MonPictureSize(s) ==
  /\ pc = MonPc("size", s)
  /\ \E o \in Exec(ReadCdb(KVS3105_READ_PICTURE_ELEMENT_SIZE, g.scanner_page,
                           IF s # 0 THEN 128 ELSE 0, 16),
                   "in", 16, AnsPictureSize) :
       IF o.r.ret # 0 THEN MonReturn("size", o, o.r.ret)
       ELSE /\ WithinBudget(o)
            /\ Commit("size", o, 0, NoRead, [hist EXCEPT !.sized = TRUE])
            /\ Goto(MonPc("wait", s), Locals)
            /\ imgSize' = o.dev.img
            /\ devRemaining' = o.dev.img

MonDataBufferWait(s) ==
  /\ pc = MonPc("wait", s)
  /\ \E o \in Exec(GetDataBufferStatusCdb, "in", 12, AnsBufferStatus) :
       IF o.r.ret # 0 THEN MonReturn("wait", o, o.r.ret)
       ELSE LET length == UsbBufferLength(o.r.data)
            IN  /\ WithinBudget(o)
                /\ Commit("wait", o, IF length # Zero4 THEN 0 ELSE -2, NoRead,
                          [hist EXCEPT !.waited = (length # Zero4)])
                /\ Goto(MonPc(IF length # Zero4 THEN "read" ELSE "sleep", s),
                        Locals)
                /\ UNCHANGED << devRemaining, imgSize >>

MonWaitSleep(s) ==
  /\ pc = MonPc("sleep", s)
  /\ pc' = MonPc("wait", s)
  /\ UNCHANGED << transport, duplex, num_pages, block_size, pageno, page,
                  side, requestsense, senseSrc, retries, last, result,
                  end_of_page, devRemaining, imgSize, g, window, windowbytes,
                  reported, hist >>

BadNextScannerPage(sp) == IF sp + 1 > 254 THEN 0 ELSE sp + 1

\* g.scanner_page++; if (g.scanner_page > 255) g.scanner_page = 0;
NextScannerPage(sp) == IF sp + 1 > 255 THEN 0 ELSE sp + 1

\* One kvs3105_read_data of a drain loop of readpages and, at end_of_page,
\* what follows the loop: the other side, or the next page.
MonReadData(s) ==
  /\ pc = MonPc("read", s)
  /\ LET L == ReadLength(KVS3105_BUFFER_SIZE)
     IN \E o \in Exec(ReadCdb(KVS3105_READ_IMAGE, g.scanner_page,
                              IF s # 0 THEN 128 ELSE 0, L),
                      "in", L, AnsReadImage(L, devRemaining)) :
     \E jk \in (IF o.r.ret > 0 /\ \E i \in 1 .. 7 : o.r.sense[i] = Indet
                THEN JunkBytes ELSE {0}) :
       LET rs   == [i \in SenseIdx |-> Seen(o.r.sense[i], jk)]
           rd   == read_data(o.r.ret, rs, L, result, end_of_page)
           fair == o.clean /\ o.seen /\ Faithful(o.dev, L)
           val  == IF U32IsSmall(rd.result) /\ U32Val(rd.result) <= L
                   THEN U32Val(rd.result) ELSE 0
           h1   == [hist EXCEPT
                      !.reads = @ + 1,
                      !.sum = @ + val,
                      !.honest = @ /\ fair]
           rdl  == [result |-> rd.result, eop |-> rd.eop, reads |-> h1.reads,
                    sum |-> h1.sum, honest |-> h1.honest, size |-> imgSize]
           h2   == [h1 EXCEPT !.imagesDone = @ + 1,
                              !.drained = @ + 1,
                              !.waited = FALSE, !.sized = FALSE,
                              !.reads = 0, !.sum = 0, !.honest = TRUE]
           ends == [Locals EXCEPT !.result = Indet4, !.eop = FALSE]
       IN
       IF rd.ret # 0 THEN MonReturn("read", o, rd.ret)
       ELSE IF rd.eop
       THEN /\ WithinBudget(o)
            /\ s = 1 => g.page < MaxWrapPages
            /\ Commit("read", o, 0, rdl, h2)
            /\ IF s = 0 THEN Goto(MonPc("size", 1), ends)
               ELSE Goto(MonPc("size", 0),
                         [ends EXCEPT
                            !.g = [page |-> g.page + 1,
                                   scanner_page |->
                                     NextScannerPage(g.scanner_page)]])
            /\ devRemaining' = 0
            /\ imgSize' = 0
       ELSE /\ WithinBudget(o)
            /\ Commit("read", o, 0, rdl, h1)
            /\ Goto(pc, [Locals EXCEPT !.result = rd.result, !.eop = rd.eop])
            /\ devRemaining' = IF o.seen THEN devRemaining - o.dev.consumed
                               ELSE devRemaining
            /\ imgSize' = imgSize

MonNext ==
  \/ MonResetWindows
  \/ MonSetWindowFront
  \/ MonSetWindowBack
  \/ MonScan
  \/ \E s \in {0, 1} : MonPictureSize(s)
  \/ \E s \in {0, 1} : MonDataBufferWait(s)
  \/ \E s \in {0, 1} : MonWaitSleep(s)
  \/ \E s \in {0, 1} : MonReadData(s)

\* The long sessions are explored as long as nothing goes wrong.
WrapHist == [InitHist EXCEPT !.anomalies = MaxAnomalies + 1]

\* readpages is entered on an attached scanner; set_windows is called with
\* duplex = 1.
MonInit ==
  /\ transport = "usb"
  /\ duplex = TRUE
  /\ num_pages = 0
  /\ block_size = 0
  /\ window = MonitorWindow
  /\ windowbytes = JunkWindowBytes
  /\ pc = "m_reset"
  /\ StartWith(WrapHist)

\* kv-s3105c/kvscanner with -n MaxWrapPages -b WrapBlock: one block of all
\* pages
WrapMainInit ==
  /\ transport = "usb"
  /\ duplex = FALSE
  /\ num_pages = MaxWrapPages
  /\ block_size = BlockSize(WrapBlock, num_pages)
  /\ window = MainWindow(transport, WrapBlock, num_pages)
  /\ windowbytes = JunkWindowBytes
  /\ pc = "reset"
  /\ StartWith(WrapHist)

WrapInit == MonInit \/ WrapMainInit

WrapNext ==
  \/ ResetWindows
  \/ SetWindowFront
  \/ Scan
  \/ PictureSize
  \/ DataBufferWait
  \/ WaitSleep
  \/ ReadData
  \/ MonNext

\* The sessions that run past device page 255.
WrapSpec == WrapInit /\ [][WrapNext]_vars

\* ---------------------------------------------- set_windows on its own
\* Values a field of each width is given.
U8Values == {0, 1, 128, 255}
U16Values == {0, 1, 256, 65535}
U32Values == {W32(0), W32(1), W32(65536), << 65535, 65535 >>}

U8Fields ==
  {"brighness", "threshold", "contrast", "composition", "bpp",
   "compression_type", "compression_argument", "mirror_image", "emphasis",
   "gamma_correction", "document_size", "number_of_pages_to_scan",
   "threshold_mode", "separation_mode", "standard_white_level", "stop_mode"}
U16Fields == {"xres", "yres", "halftone_pattern", "bit_ordering"}

Flag == {0, 1}

\* The fields that share a byte of the record with others.
FlagFields ==
  {"reverse_image", "flatbed", "stop_on_skew", "disable_buffering",
   "continue_on_double_feed", "multi_colour_drop_out", "remove_moire",
   "colour_match", "ahead_disable", "double_feed_detector",
   "full_size_scan", "feed_slow", "remove_shadow",
   "blackwhite_noise_reduction", "additional_space_top",
   "additional_space_bottom", "detect_separation_sheet",
   "halt_at_separation_sheet", "detect_control_sheet"}
EnumFields ==
  {"lamp", "double_feed_sensitivity", "subsample", "deskew",
   "noise_reduction", "manual_feed_mode"}

\* A window with every field in its documented range: a flag 0 or 1, an
\* enumeration one of its listed values, a field without documented
\* range within the bits the record has for it.
ValidWindow(w) ==
  /\ \A f \in FlagFields : w[f] \in Flag
  /\ w.lamp \in 0 .. 3
  /\ w.double_feed_sensitivity \in 0 .. 2
  /\ w.subsample \in 0 .. 3
  /\ w.deskew \in 0 .. 2
  /\ w.noise_reduction \in 0 .. 127
  /\ w.manual_feed_mode \in 0 .. 3

\* Windows that differ from w in one scalar field, or in the fields that
\* share one byte of the record, each within its documented range; and
\* windows with one of the latter fields out of range.
WindowsAround(w) ==
  {[w EXCEPT ![f] = 255] : f \in FlagFields \cup EnumFields} \cup
  {[w EXCEPT ![f] = v] : f \in U8Fields, v \in U8Values}
  \cup {[w EXCEPT ![f] = v] : f \in U16Fields, v \in U16Values}
  \cup {[w EXCEPT ![f] = v] : f \in WindowFields32, v \in U32Values}
  \cup {[w EXCEPT !.reverse_image = v] : v \in Flag}
  \cup {[w EXCEPT !.flatbed = a, !.stop_on_skew = b,
                   !.disable_buffering = c, !.continue_on_double_feed = d] :
           a \in Flag, b \in Flag, c \in Flag, d \in Flag}
  \cup {[w EXCEPT !.multi_colour_drop_out = a, !.lamp = b,
                   !.double_feed_sensitivity = c] :
           a \in Flag, b \in 0 .. 3, c \in 0 .. 2}
  \cup {[w EXCEPT !.remove_moire = a, !.subsample = b, !.colour_match = c] :
           a \in Flag, b \in 0 .. 3, c \in Flag}
  \cup {[w EXCEPT !.ahead_disable = a, !.deskew = b,
                   !.double_feed_detector = c, !.full_size_scan = d,
                   !.feed_slow = e, !.remove_shadow = f] :
           a \in Flag, b \in 0 .. 2, c \in Flag, d \in Flag, e \in Flag,
           f \in Flag}
  \cup {[w EXCEPT !.blackwhite_noise_reduction = a, !.noise_reduction = b] :
           a \in Flag, b \in {0, 1, 127}}
  \cup {[w EXCEPT !.manual_feed_mode = a, !.additional_space_top = b,
                   !.additional_space_bottom = c,
                   !.detect_separation_sheet = d,
                   !.halt_at_separation_sheet = e,
                   !.detect_control_sheet = f] :
           a \in 0 .. 3, b \in Flag, c \in Flag, d \in Flag, e \in Flag,
           f \in Flag}
  \cup {[w EXCEPT !.red_chroma = a, !.blue_chroma = b] :
           a \in {0, 255}, b \in {0, 255}}

\* What the memory of windowbytes may hold when set_windows is entered.
OldWindowBytes ==
  {JunkWindowBytes, [i \in 1 .. WindowBytesLen |-> 255]}

\* set_windows (after reset_windows on USB) called with any window, as
\* long as nothing goes wrong.
WinInit ==
  /\ transport \in {"usb", "sg"}
  /\ duplex \in BOOLEAN
  /\ num_pages = 1
  /\ block_size = 1
  /\ window \in WindowsAround(IF transport = "usb" THEN kvs3105_window_init
                                ELSE kvss905c_window_init)
  /\ windowbytes \in OldWindowBytes
  /\ pc = IF transport = "usb" THEN "reset" ELSE "setwin_front"
  /\ StartWith(WrapHist)

WinNext ==
  \/ ResetWindows
  \/ SetWindowFront
  \/ SetWindowBack

WinSpec == WinInit /\ [][WinNext]_vars

\* ------------------------------------------------- report on its own
\* Byte 2 of the sense data: the sense key, alone or under the
\* end-of-medium and incorrect-length bits.
SenseKeyBytes == { k + u : k \in 0 .. 15, u \in {0, 96} }

\* The error codes of the table, and some it does not have.
ErrorCodes == { e[2] : e \in ErrorTable } \cup {1, 14849, 65535}

\* main at a failed driver call, with any sense data in requestsense.
ErrInit ==
  /\ transport = "usb"
  /\ duplex = FALSE
  /\ num_pages = 1
  /\ block_size = 1
  /\ window = MainWindow(transport, 1, num_pages)
  /\ windowbytes = JunkWindowBytes
  /\ pc = "report"
  /\ requestsense \in { MkSense(b, Zero4, c \div 256, c % 256) :
                          b \in SenseKeyBytes, c \in ErrorCodes }
  /\ senseSrc = [i \in SenseIdx |-> "dev"]
  /\ StartRest(InitHist)

\* report(...); return 2;
Report ==
  /\ pc = "report"
  /\ pc' = "aborted"
  /\ reported' = report(requestsense)
  /\ UNCHANGED << transport, duplex, num_pages, block_size, pageno, page,
                  side, requestsense, senseSrc, retries, last, result,
                  end_of_page, devRemaining, imgSize, g, window, windowbytes,
                  hist >>

ErrNext == Report

ErrSpec == ErrInit /\ [][ErrNext]_vars

\* ------------------------------------------- a session that goes well
\* kvscanner with any -n and -b, explored as long as bus, driver and
\* device do as they should; the process keeps running: a step of main
\* that is possible is eventually taken.
GoodInit ==
  /\ transport \in {"usb", "sg"}
  /\ duplex \in BOOLEAN
  /\ num_pages \in 1 .. MaxPages
  /\ \E b \in 0 .. MaxBlock :
       /\ block_size = BlockSize(b, num_pages)
       /\ window = MainWindow(transport, b, num_pages)
  /\ windowbytes = JunkWindowBytes
  /\ pc = IF transport = "usb" THEN "reset" ELSE "setwin_front"
  /\ StartWith(WrapHist)

GoodSpec == GoodInit /\ [][Next]_vars /\ WF_vars(Next)

\* ------------------------------------------ data_buffer_wait on its own
\* Bytes a GET DATA BUFFER STATUS reply is given.
StatusBytes == {0, 1, 255}

\* The replies of the device to GET DATA BUFFER STATUS: any window id and
\* any three length bytes, or an error.
AnsAnyBufferStatus ==
  { Answer("good", SenseNone, BufferStatus(wid, b9, b10, b11), 0, 0) :
      wid \in {0, 128}, b9 \in StatusBytes, b10 \in StatusBytes,
      b11 \in StatusBytes }
    \cup AnsErrors

\* main enters data_buffer_wait.
WaitInit ==
  /\ transport \in {"usb", "sg"}
  /\ duplex = FALSE
  /\ num_pages = 1
  /\ block_size = 1
  /\ window = MainWindow(transport, 1, num_pages)
  /\ windowbytes = JunkWindowBytes
  /\ pc = "wait"
  /\ StartWith(InitHist)

WaitStatus == DataBufferWaitOn(AnsAnyBufferStatus)

WaitNext ==
  \/ WaitStatus
  \/ WaitSleep

WaitSpec == WaitInit /\ [][WaitNext]_vars

\* ==================================================== session ordering
\* C1: in a duplex session in which every driver call so far succeeded, the
\* image retrievals of a block address (0,front),(0,back),(1,front),...:
\* the picture-size READ and every image READ of the i-th retrieval carry
\* page i \div 2 and side front for even i, back for odd i; the block has
\* no retrieval beyond (block_size - 1, back) and ends only after it.
C1_DuplexOrder ==
  (duplex /\ hist.allOk) =>
    /\ last.op \in {"size", "read"} =>
         /\ last.cdb[5] = last.img \div 2
         /\ last.cdb[6] = (IF last.img % 2 = 1 THEN 128 ELSE 0)
         /\ last.img < 2 * block_size
    /\ (last.op = "read" /\ last.eop /\ pc \notin {"size", "aborted"}) =>
         last.img = 2 * block_size - 1
    /\ pc \in {"size", "wait", "sleep", "read"} =>
         (page = hist.imagesDone \div 2 /\ side = hist.imagesDone % 2)

\* the back of the second page of a block of two has just been drained
C1_Witness ==
  /\ duplex /\ hist.allOk /\ block_size = 2
  /\ last.op = "read" /\ last.eop /\ last.img = 3
  /\ last.cdb[5] = 1 /\ last.cdb[6] = 128

\* C2: for every page/side the picture-size READ is issued only after the
\* buffer wait for that page/side has returned success, and an image READ
\* only after the picture-size query has succeeded.
C2_WaitSizeRead ==
  /\ last.op = "size" => hist.waited
  /\ last.op = "read" => (hist.sized \/ last.eop \/ pc = "aborted")

\* ... what main does instead: picture size, then wait, then the reads
C2_SizeWaitRead ==
  /\ (last.op = "wait" /\ pc # "aborted") => hist.sized
  /\ (last.op = "read" /\ pc = "read") => (hist.sized /\ hist.waited)
  /\ (last.op = "size" /\ pc # "aborted" /\ retries = 0) => ~hist.waited

\* C3: when the device answers SCAN with check-condition and sense
\* 0x3a00 (no paper), and bus and driver hand that sense over, the
\* session is over at once: the transport makes no further attempt at
\* SCAN, main has returned 2, and no step of the program is possible any
\* more.
C3_NoPaperAborts ==
  (last.op = "scan" /\ hist.clean /\ hist.lastDev = "check"
     /\ hist.lastAsc = << 58, 0 >>) =>
    /\ pc = "aborted"
    /\ retries = 0
    /\ last.api = 2
    /\ scsi_error_code(requestsense) = << 58, 0 >>
    /\ ~ ENABLED Next

C3_Witness ==
  /\ transport = "sg" /\ last.op = "scan" /\ hist.clean
  /\ hist.lastAsc = << 58, 0 >> /\ pc = "aborted" /\ last.attempts = 1

\* ============================================ SCSI generic retry budget
\* C4: one scsi_command call makes at most 5 ioctls; when 5 attempts in a
\* row ended in a transient check-condition the call is over with 2.
C4_AtMostFiveIoctls ==
  transport = "sg" =>
    /\ last.attempts <= kScsiAttempts
    /\ retries < kScsiAttempts
    /\ hist.transients = kScsiAttempts =>
         (last.ret = 2 /\ retries = 0 /\ pc = "aborted")

C4_Witness ==
  /\ transport = "sg" /\ hist.transients = 5 /\ last.attempts = 5
  /\ last.ret = 2 /\ pc = "aborted"

\* C5: a scsi_command call whose first k attempts (k in 0..4) ended in a
\* transient check-condition goes on to attempt k + 1, and when that one
\* ends with good status the call returns 0 after exactly k + 1 ioctls.
C5_RetryThenSuccess ==
  (transport = "sg" /\ last.op # "none" /\ hist.clean) =>
    /\ (hist.lastDev = "check" /\ hist.transients = last.attempts
           /\ last.attempts < kScsiAttempts) =>
         (last.ret = -1 /\ retries = last.attempts)
    /\ (hist.lastDev = "good" /\ hist.transients = last.attempts - 1) =>
         (last.ret = 0 /\ retries = 0 /\ last.attempts \in 1 .. kScsiAttempts)

\* four transient failures, then success at the fifth attempt
C5_Witness ==
  /\ transport = "sg" /\ hist.clean /\ hist.lastDev = "good"
  /\ hist.transients = 4 /\ last.attempts = 5 /\ last.ret = 0

\* ======================================================== sense data
\* C6: whenever the transport (send_command, scsi_command) returns 2, the
\* sense bytes it hands back were all delivered by the device during
\* that call: none is left from an earlier call, uninitialised, a zero
\* fill or a remnant of the command block.
C6_FreshSense ==
  last.ret = 2 => \A i \in 1 .. RESPONSE_SIZE : senseSrc[i] = "fresh"

\* =================================================== the buffer wait
\* C7: once the caller has signalled cancellation during the buffer wait,
\* the wait ends, even if the device reports an empty buffer for ever.
C7_CancelEndsWait ==
  (InWait /\ hist.cancel) ~> ~InWait

\* ============================================================ read_data
\* C8: when an image READ of L bytes ends in check-condition (transport
\* result 2) with sense byte 0 = 0xf0, byte 2 = 0x60 and a big-endian
\* residual r <= L in bytes 3..6, read_data returns 0, reports L - r bytes
\* and end-of-page, on either transport.
C8_EndOfMedium ==
  LET r == << requestsense[4], requestsense[5], requestsense[6],
              requestsense[7] >>
  IN  (last.op = "read" /\ last.ret = 2 /\ requestsense[1] = 240
         /\ requestsense[3] = 96 /\ U32IsSmall(r) /\ U32Val(r) <= last.len) =>
        /\ last.api = 0
        /\ last.eop
        /\ last.result = U32FromNat(last.len - U32Val(r))

\* L = 0x10000, r = 0x32 over USB
C8_Witness ==
  /\ transport = "usb" /\ last.op = "read" /\ last.ret = 2
  /\ last.len = 65536 /\ requestsense[1] = 240 /\ requestsense[3] = 96
  /\ << requestsense[4], requestsense[5], requestsense[6], requestsense[7] >>
       = << 0, 0, 0, ShortChunk >>
  /\ last.eop /\ last.result = U32FromNat(65536 - ShortChunk)

\* ceil(n / c)
CeilDiv(n, c) == (n + c - 1) \div c

\* the latest call was a read_data that returned 0, and bus and device
\* have so far delivered the image as asked: full chunks with good
\* status, the rest with end-of-medium and the true residual
FaithfulRead ==
  last.op = "read" /\ last.api = 0 /\ last.honest /\ last.size >= 1

\* C9: draining a page/side of N bytes with chunks of C = 0x10000 takes
\* exactly ceil(N/C) READs whose results sum to N; every READ but the
\* last reports C bytes and no end-of-page, the last is short and reports
\* end-of-page.
C9_CeilReads ==
  FaithfulRead =>
    IF last.eop
    THEN /\ last.reads = CeilDiv(last.size, kMaxBuffer)
         /\ last.sum = last.size
         /\ U32Val(last.result) < kMaxBuffer
    ELSE /\ last.result = U32FromNat(kMaxBuffer)
         /\ last.reads < CeilDiv(last.size, kMaxBuffer)

\* C9 as the code has it: the results sum to N; every READ but the last
\* reports C bytes and no end-of-page; the last reports end-of-page and
\* the N - C * (reads - 1) bytes still missing; there are ceil(N/C) READs,
\* or, when N is a multiple of C and the device gave the chunk that fits
\* exactly with good status, one more READ that reports 0 bytes.
C9_DrainSumsToSize ==
  FaithfulRead =>
    IF last.eop
    THEN /\ last.sum = last.size
         /\ U32Val(last.result) = last.size - kMaxBuffer * (last.reads - 1)
         /\ \/ last.reads = CeilDiv(last.size, kMaxBuffer)
            \/ /\ last.size % kMaxBuffer = 0
               /\ last.reads = last.size \div kMaxBuffer + 1
               /\ last.result = Zero4
         /\ last.size % kMaxBuffer # 0 => U32Val(last.result) < kMaxBuffer
    ELSE /\ last.result = U32FromNat(kMaxBuffer)
         /\ last.sum = kMaxBuffer * last.reads
         /\ last.sum <= last.size

\* an image of exactly C bytes drained with two READs, the second empty
C9_Witness ==
  /\ FaithfulRead /\ last.eop /\ last.size = kMaxBuffer
  /\ last.reads = 2 /\ last.result = Zero4 /\ last.sum = kMaxBuffer

\* C10: after a read_data that returned 0 with fewer bytes than asked
\* for, main issues no further image READ for that page/side.
C10_StopAtShortChunk ==
  (last.op = "read" /\ last.api = 0 /\ U32IsSmall(last.result)
     /\ U32Val(last.result) < last.len) =>
    pc # "read"

\* C11: read_data turns a failed image READ into a successful read only
\* when the transport reported check-condition and the sense the device
\* delivered with it is a current error (byte 0 = 0xf0) with both
\* end-of-medium and incorrect-length set; every other failed READ makes
\* read_data return an error.
C11_ShortReadOnlyOnEomIli ==
  (last.op = "read" /\ last.ret > 0 /\ last.api = 0) =>
    /\ last.ret = 2
    /\ \A i \in 1 .. 7 : senseSrc[i] = "fresh"
    /\ requestsense[1] = 240
    /\ Bit(requestsense[3], 6) = 1
    /\ Bit(requestsense[3], 5) = 1

\* C12: whenever read_data returns 0, the number of bytes it reports is at
\* most the length asked for, min(blen, 0x10000), whatever residual the
\* sense data carried.
C12_ResultWithinLength ==
  (last.op = "read" /\ last.api = 0) =>
    (U32IsSmall(last.result) /\ U32Val(last.result) <= last.len)

\* ===================================================== page index wrap
\* sides read per page
Sides == IF duplex THEN 2 ELSE 1

\* the session is inside the loop that retrieves pages
InPageLoop ==
  pc \in {"size", "wait", "sleep", "read", "m_size0", "m_wait0", "m_sleep0",
          "m_read0", "m_size1", "m_wait1", "m_sleep1", "m_read1"}

\* the page number used in file names and messages
Logical ==
  IF pc \in {"size", "wait", "sleep", "read"} THEN pageno + page ELSE g.page

\* C13: in a session that runs past device page 255, every READ carries a
\* page index in 0..255 that equals the number of pages completed since the
\* SCAN modulo 256 (so it wraps to 0 after 255), while the logical page
\* number goes up by exactly one with every completed page (255 is followed
\* by 256) and never goes down.
C13_IndexWrapsCounterGrows ==
  [][/\ last'.op \in {"size", "read"} =>
          /\ last'.cdb[5] \in 0 .. 255
          /\ last'.cdb[5] = (last'.img \div Sides) % 256
     /\ InPageLoop' => Logical' = hist'.imagesDone \div Sides
     /\ (InPageLoop /\ InPageLoop') =>
          /\ Logical' \in {Logical, Logical + 1}
          /\ (Logical' = Logical + 1) <=>
               (hist'.imagesDone \div Sides = hist.imagesDone \div Sides + 1)
    ]_vars

\* the monitor reads the front of its 257th page: device page 0, file 256
C13_Witness ==
  /\ pc = "m_read0" /\ last.op = "read" /\ ~last.eop
  /\ last.cdb[5] = 0 /\ last.img \div Sides = 256
  /\ g.page = 256 /\ g.scanner_page = 0

\* ============================================== reset before configuring
\* the latest driver call sent the SET WINDOW that carries the front window
ConfiguredFront == last.op = "setwin_front"

\* the driver call before the latest was a resetting SET WINDOW (opcode
\* 0x24, transfer length 0, no data phase) that returned 0
PrecededByReset ==
  /\ hist.prev.op = "reset"
  /\ hist.prev.api = 0
  /\ hist.prev.cdb[1] = 36
  /\ hist.prev.cdb[7] = 0 /\ hist.prev.cdb[8] = 0 /\ hist.prev.cdb[9] = 0
  /\ \A i \in 1 .. Len(hist.prev.xfers) :
       hist.prev.xfers[i][2] \notin {"data_in", "data_out"}

C15_NonZeroAborts ==
  (last.api > 0) => (pc = "aborted" /\ ~ ENABLED Next)

\* the session ended at a failed image READ of its second image
C15_Witness ==
  /\ last.op = "read" /\ last.api > 0 /\ last.img = 1
  /\ pc = "aborted" /\ ~hist.allOk

\* =================================================== session complete
\* C16: a session with block size in 1..254 in which every driver call
\* returned 0 has, when main ends, retrieved exactly num_pages pages (each
\* side of each page once under duplex).
C16_DrainsRequestedCount ==
  (pc = "done" /\ hist.allOk /\ block_size \in 1 .. 254) =>
    hist.drained = num_pages * Sides

\* ===================================================== USB bus failures
\* the latest driver call went over the USB transport
UsbCall == transport = "usb" /\ last.op # "none"

\* C17: in send_command, for the caller's command, a command frame that
\* could not be sent gives return 1 and a failed data phase gives return 3;
\* in both cases the failed bulk transfer is the last one of the call (no
\* data phase after a failed command frame, no status read, no REQUEST
\* SENSE).
C17_FrameAndDataFailures ==
  UsbCall =>
    /\ hist.bus.frame =>
         (last.ret = 1 /\ last.xfers = << << "cmd", "cmd" >> >>)
    /\ hist.bus.data =>
         /\ last.ret = 3
         /\ Len(last.xfers) = 2
         /\ last.xfers[1] = << "cmd", "cmd" >>
         /\ last.xfers[2][1] = "cmd"
         /\ last.xfers[2][2] \in {"data_in", "data_out"}

\* the data phase of an image READ failed on the bus
C17_Witness ==
  /\ UsbCall /\ last.op = "read" /\ hist.bus.data /\ hist.bus.libusb
  /\ last.ret = 3 /\ last.xfers = << << "cmd", "cmd" >>, << "cmd", "data_in" >> >>

\* a bulk transfer of the latest call failed in libusb
BusFailure == hist.bus.libusb

\* C18: a USB call in which a bulk transfer failed on the bus (command
\* frame, data phase or status read, of the caller's command or of REQUEST
\* SENSE) returns 1 or 3, never 2.
C18_BusFailureNeverTwo ==
  (UsbCall /\ BusFailure) => last.ret \in {1, 3}

\* ================================================ SCSI generic outcomes
\* the latest pass of the loop of scsi_command
SgAttempt == transport = "sg" /\ last.op # "none"

\* C19: in scsi_command a failed ioctl returns 1 on the pass where it
\* happens (no further pass, no pause) and is never returned as 2; a
\* check-condition is never returned as 1, and when the sense buffer does
\* not show a transient code it is returned as 2 on that pass.
C19_IoctlOneCheckTwo ==
  SgAttempt =>
    /\ hist.lastDev = "none" => (last.ret = 1 /\ retries = 0)
    /\ hist.lastDev = "check" => last.ret \in {-1, 2}
    /\ (hist.lastDev = "check" /\ requestsense[13] \notin {40, 41, 4, Indet})
         => (last.ret = 2 /\ retries = 0)
    /\ last.ret = 1 => hist.lastDev = "none"
    /\ last.ret = 2 => hist.lastDev = "check"

\* the ioctl failed on the third pass, after two retried check-conditions
C19_Witness ==
  /\ SgAttempt /\ hist.lastDev = "none" /\ last.attempts = 3
  /\ last.ret = 1 /\ retries = 0 /\ pc = "aborted"

\* the latest pass got sense data from the device and its ASC is one of
\* the transient ones
TransientNow ==
  hist.delivered /\ hist.lastAsc[1] \in {40, 41, 4}

\* C20: a pass of scsi_command that ends in a check-condition is followed
\* by another pass exactly when the sense data of that pass is transient
\* (and the five passes are not used up); with any other sense the
\* check-condition is returned as 2 on that pass.
C20_RetryIffTransient ==
  (SgAttempt /\ hist.lastDev = "check") =>
    /\ (last.ret = -1) <=> (TransientNow /\ last.attempts < kScsiAttempts)
    /\ ~TransientNow => (last.ret = 2 /\ retries = 0)

\* ================================================= USB: frames per call
\* how many of the bulk transfers x are the transfer f
Frames(x, f) == Cardinality({ i \in 1 .. Len(x) : x[i] = f })

\* C21: one send_command sends the command frame of the caller's command
\* exactly once, first of all its transfers, whatever comes of it; a
\* check-condition with a transient sense (not ready, unit attention) is
\* returned to the caller as 2 and not tried again.
C21_CommandFrameOnce ==
  UsbCall =>
    /\ Frames(last.xfers, << "cmd", "cmd" >>) = 1
    /\ last.xfers[1] = << "cmd", "cmd" >>
    /\ last.attempts = 1 /\ retries = 0 /\ last.ret \in {0, 1, 2, 3}
    /\ (hist.lastDev = "check" /\ hist.delivered
          /\ hist.lastAsc[1] \in {40, 41, 4}) =>
         (last.ret = 2 /\ last.api > 0 /\ pc = "aborted")

\* SCAN over USB was answered with "not ready": one command frame, return 2
C21_Witness ==
  /\ UsbCall /\ last.op = "scan" /\ hist.lastDev = "check" /\ hist.delivered
  /\ hist.lastAsc = << 4, 1 >> /\ last.ret = 2
  /\ Frames(last.xfers, << "cmd", "cmd" >>) = 1

\* C22: send_command sends REQUEST SENSE (6 bytes, opcode 0x03, allocation
\* length 0x12) exactly once in a call whose command the device answered
\* with check-condition, and not at all in a call whose status word came
\* back GOOD.
C22_RequestSenseOnce ==
  /\ RequestSenseCdb = << 3, 0, 0, 0, 18, 0 >>
  /\ UsbCall =>
       /\ Frames(last.xfers, << "sense", "cmd" >>) <= 1
       /\ (hist.lastDev = "check" /\ ~hist.bus.frame /\ ~hist.bus.data) =>
            /\ Frames(last.xfers, << "sense", "cmd" >>) = 1
            /\ Frames(last.xfers, << "cmd", "status" >>) = 1
       /\ (hist.lastDev = "good" /\ ~hist.bus.frame /\ ~hist.bus.data
             /\ ~hist.bus.libusb) =>
            (last.ret = 0 /\ \A i \in 1 .. Len(last.xfers) :
                               last.xfers[i][1] # "sense")

\* an image READ over USB ended in check-condition and one REQUEST SENSE
C22_Witness ==
  /\ UsbCall /\ last.op = "read" /\ hist.lastDev = "check" /\ hist.delivered
  /\ last.ret = 2
  /\ last.xfers = << << "cmd", "cmd" >>, << "cmd", "data_in" >>,
                     << "cmd", "status" >>, << "sense", "cmd" >>,
                     << "sense", "data_in" >>, << "sense", "status" >> >>


\* ================================================== the window record
\* The documented layout of the 64-byte window record, read back: the
\* big-endian scalars and the bits of the shared bytes.  The record has
\* no place for red_chroma and blue_chroma; a reader finds them as
\* window_init leaves them.
BE16(s, i) == s[i] * 256 + s[i + 1]
BE32(s, i) == << BE16(s, i), BE16(s, i + 2) >>
Bits(b, shift, width) == (b \div (2 ^ shift)) % (2 ^ width)

window_deserialise(s) ==
  [ZeroWindow EXCEPT
     !.xres = BE16(s, 3), !.yres = BE16(s, 5),
     !.x1 = BE32(s, 7), !.y1 = BE32(s, 11),
     !.width = BE32(s, 15), !.length = BE32(s, 19),
     !.brighness = s[23], !.threshold = s[24], !.contrast = s[25],
     !.composition = s[26], !.bpp = s[27],
     !.halftone_pattern = BE16(s, 28),
     !.reverse_image = Bits(s[30], 7, 1),
     !.bit_ordering = BE16(s, 31),
     !.compression_type = s[33], !.compression_argument = s[34],
     !.flatbed = Bits(s[42], 7, 1), !.stop_on_skew = Bits(s[42], 4, 1),
     !.disable_buffering = Bits(s[42], 3, 1),
     !.continue_on_double_feed = Bits(s[42], 0, 1),
     !.mirror_image = s[43], !.emphasis = s[44],
     !.gamma_correction = s[45],
     !.multi_colour_drop_out = Bits(s[46], 7, 1),
     !.lamp = Bits(s[46], 4, 2),
     !.double_feed_sensitivity = Bits(s[46], 0, 2),
     !.remove_moire = Bits(s[47], 6, 1), !.subsample = Bits(s[47], 4, 2),
     !.colour_match = Bits(s[47], 0, 1),
     !.document_size = s[48],
     !.document_width = BE32(s, 49), !.document_length = BE32(s, 53),
     !.ahead_disable = Bits(s[57], 7, 1), !.deskew = Bits(s[57], 5, 2),
     !.double_feed_detector = Bits(s[57], 4, 1),
     !.full_size_scan = Bits(s[57], 2, 1), !.feed_slow = Bits(s[57], 1, 1),
     !.remove_shadow = Bits(s[57], 0, 1),
     !.number_of_pages_to_scan = s[58], !.threshold_mode = s[59],
     !.separation_mode = s[60], !.standard_white_level = s[61],
     !.blackwhite_noise_reduction = Bits(s[62], 7, 1),
     !.noise_reduction = Bits(s[62], 0, 7),
     !.manual_feed_mode = Bits(s[63], 6, 2),
     !.additional_space_top = Bits(s[63], 5, 1),
     !.additional_space_bottom = Bits(s[63], 4, 1),
     !.detect_separation_sheet = Bits(s[63], 3, 1),
     !.halt_at_separation_sheet = Bits(s[63], 2, 1),
     !.detect_control_sheet = Bits(s[63], 1, 1),
     !.stop_mode = s[64]]

\* set_windows has sent a window: windowbytes is what went out last.
WindowSent ==
  /\ last.op \in {"setwin_front", "setwin_back"}
  /\ pc \in {"setwin_back", "scan"}
  /\ retries = 0

\* the window body of the descriptor: what follows header and length
WindowBody == SubSeq(windowbytes, 9, Len(windowbytes))

\* C23 as stated: for every valid window the serialiser gives 64 bytes
\* and decoding them by the layout gives back every field of the window.
C23_RoundTripEveryField ==
  (WindowSent /\ ValidWindow(window)) =>
    /\ Len(WindowBody) = WINDOW_SIZE
    /\ window_deserialise(WindowBody) = window

\* C23 as the code has it: for every valid window the serialiser gives 64
\* bytes and decoding them by the layout gives back every field but
\* red_chroma and blue_chroma, which the serialiser leaves out.
C23_RoundTripButChroma ==
  (WindowSent /\ ValidWindow(window)) =>
    /\ Len(WindowBody) = WINDOW_SIZE
    /\ \A f \in WindowFields \ {"red_chroma", "blue_chroma"} :
         window_deserialise(WindowBody)[f] = window[f]

\* a window that uses every bit of the last flag byte
C23_Witness ==
  /\ WindowSent /\ last.op = "setwin_front" /\ ValidWindow(window)
  /\ window.manual_feed_mode = 3 /\ window.detect_control_sheet = 1
  /\ window.additional_space_top = 1
  /\ window_deserialise(WindowBody).manual_feed_mode = 3
  /\ WindowBody[63] = 238

\* C24: whatever the window, the length check of set_windows holds and
\* abort() is not called, on both transports.
C24_NeverAborts ==
  /\ pc # "crashed"
  /\ ~FrontWindowBytes(windowbytes, window).abort
  /\ window_serialise(WindowBody, window).j = WINDOW_SIZE

\* a window with a field out of range has gone out over SCSI generic
C24_Witness ==
  /\ WindowSent /\ transport = "sg" /\ window.deskew = 255
  /\ Len(WindowBody) = WINDOW_SIZE

\* C30: in every window descriptor sent, front or back, on both
\* transports, the six bytes at offsets 34..39 of the window body are
\* zero, whatever the window and whatever the memory held before.
C30_ReservedBytesZero ==
  WindowSent => \A i \in 35 .. 40 : WindowBody[i] = 0

\* the back window has gone out over USB, its reserved bytes zero
C30_Witness ==
  /\ WindowSent /\ last.op = "setwin_back" /\ transport = "usb"
  /\ WindowBody[1] = 128 /\ WindowBody[35] = 0 /\ WindowBody[40] = 0
  /\ window.compression_argument = 255


\* ===================================================== error report
\* C25: the lookup of the error description answers for every sense
\* buffer: the description the table has for the sense key (the low four
\* bits of byte 2) and the error code, or NULL when the table has none;
\* report then prints the error code and, only when there is one, the
\* description.
C25_LookupTotal ==
  LET key  == requestsense[3] % 16
      code == scsi_usb_error_code(requestsense)
      msg  == kvs3105_strerror(requestsense)
      have == \E e \in ErrorTable : e[1] = key /\ e[2] = code
  IN  /\ msg = NULL <=> ~have
      /\ msg # NULL => << key, code, msg >> \in ErrorTable
      /\ (pc = "aborted" /\ reported # << >>) =>
           /\ reported[1] = code
           /\ \A i \in 2 .. Len(reported) : reported[i] # NULL
           /\ Len(reported) = IF have THEN 2 ELSE 1
           /\ have => << key, code, reported[2] >> \in ErrorTable

\* a code the table does not have, reported without description
C25_Witness ==
  /\ pc = "aborted" /\ requestsense[3] = 99
  /\ kvs3105_strerror(requestsense) = NULL
  /\ reported = << 14849 >>


\* ====================================================== duplex windows
\* C26: the SET WINDOW for the back side is sent only under duplex and
\* only after the one for the front side succeeded; its 72 bytes are
\* those of the front window but for byte 0 of the window body, which is
\* 0x80; without duplex the front window is the only one; and when the
\* SET WINDOW for the front side fails, set_windows returns the error and
\* nothing more is sent.
C26_BackAfterFront ==
  /\ [](last.op = "setwin_back" => duplex)
  /\ []((last.op = "setwin_front" /\ last.api > 0) =>
          (pc = "aborted" /\ ~ ENABLED Next))
  /\ []((last.op = "setwin_front" /\ last.api = 0 /\ retries = 0) =>
          pc = IF duplex THEN "setwin_back" ELSE "scan")
  /\ [][pc = "setwin_back" =>
          /\ duplex
          /\ last.op \in {"setwin_front", "setwin_back"}
          /\ last.op = "setwin_front" => (last.api = 0 /\ windowbytes[9] = 0)
          /\ last.op = "setwin_back" => last.api = -1
          /\ last'.op = "setwin_back"
          /\ last'.cdb = SetWindowCdb(WindowBytesLen)
          /\ last.cdb = last'.cdb
          /\ Len(windowbytes') = WindowBytesLen
          /\ windowbytes'[9] = 128
          /\ \A i \in 1 .. WindowBytesLen :
               i # 9 => windowbytes'[i] = windowbytes[i]]_vars

\* both windows of a duplex session have been sent
C26_Witness ==
  /\ duplex /\ last.op = "setwin_back" /\ last.api = 0 /\ pc = "scan"
  /\ windowbytes[9] = 128
  /\ windowbytes = [FrontWindowBytes(JunkWindowBytes, window).bytes
                      EXCEPT ![9] = 128]


\* ================================================== order in a block
\* Where main is inside the inner loop of a block.
Inner == {"size", "wait", "sleep", "read"}

\* C27: main calls SCAN only when the SET WINDOW of the front and, under
\* duplex, of the back side have just succeeded, once per block: after a
\* SCAN that succeeded the next command is no SCAN; and main enters the
\* inner loop, where picture size, buffer status and image are read, only
\* by a SCAN that succeeded.
C27_ScanAfterWindows ==
  /\ [](pc = "scan" =>
          \/ last.op = "setwin_front" /\ last.api = 0 /\ ~duplex
          \/ last.op = "setwin_back" /\ last.api = 0 /\ duplex
          \/ last.op = "scan" /\ last.api = -1 /\ retries > 0)
  /\ [][/\ pc = "scan" <=> last'.op = "scan"
        /\ (last.op = "scan" /\ last.api = 0) => last'.op # "scan"
        /\ (pc' \in Inner /\ pc \notin Inner) =>
             (pc = "scan" /\ last'.op = "scan" /\ last'.api = 0)
        /\ last'.op \in {"size", "wait", "read"} => pc \in Inner]_vars

\* the SCAN of the second block of a duplex session has succeeded
C27_Witness ==
  /\ duplex /\ pageno > 0 /\ pc = "size" /\ last.op = "scan" /\ last.api = 0


\* ====================================================== page and side
\* A step that ends the drain loop of an image: read_data returned 0 and
\* set end_of_page.
Drained == pc = "read" /\ last'.op = "read" /\ last'.api = 0 /\ last'.eop

\* C28: every picture-size and image READ carries main's page index and
\* side; the side is back only under duplex; inside a block page index
\* and side change only when an image has been drained: without duplex
\* the side stays front and the page index grows by one; under duplex the
\* drained front is followed by the back of the same page index, and only
\* the drained back by the front of the next page index.
C28_SideAndIndex ==
  /\ [](last.op \in {"size", "read"} =>
          /\ last.cdb[6] \in {0, 128}
          /\ last.cdb[6] = 128 => duplex)
  /\ [][/\ pc \in {"size", "read"} =>
             /\ last'.cdb[5] = page % 256
             /\ last'.cdb[6] = IF side = 1 THEN 128 ELSE 0
        /\ (pc \in Inner /\ pc' \in Inner /\ ~Drained) =>
             (page' = page /\ side' = side)
        /\ (Drained /\ pc' \notin {"done", "aborted"}) =>
             IF ~duplex THEN side = 0 /\ side' = 0 /\ page' = page + 1
             ELSE IF side = 0
             THEN side' = 1 /\ page' = page /\ pc' = "size"
             ELSE side' = 0 /\ page' = page + 1
        /\ (side' = 1 /\ side = 0) =>
             /\ duplex /\ Drained
             /\ last'.cdb[6] = 0 /\ last'.cdb[5] = page /\ page' = page]_vars

\* the front of the second page of a block has been drained: its back is
\* next
C28_Witness ==
  /\ duplex /\ pc = "size" /\ side = 1 /\ page = 1
  /\ last.op = "read" /\ last.eop /\ last.api = 0
  /\ last.cdb[5] = 1 /\ last.cdb[6] = 0


\* ======================================================== termination
\* C29: a session in which every command is answered with good status
\* (an image READ at the image's end with the end-of-medium sense that
\* tells its length) and the buffer status never reports length 0 comes
\* to the end of main, whatever -n and -b.
C29_Terminates ==
  <>(pc = "done" \/ pc = "sleep" \/ pc = "aborted")

\* ===================================================== the shared bytes
\* The fields of the two shared bytes named by the layout: index of the
\* byte in the window body (counted from 1), field, lowest bit, width.
PackedLayout ==
  { << 42, "flatbed", 7, 1 >>, << 42, "stop_on_skew", 4, 1 >>,
    << 42, "disable_buffering", 3, 1 >>,
    << 42, "continue_on_double_feed", 0, 1 >>,
    << 57, "ahead_disable", 7, 1 >>, << 57, "deskew", 5, 2 >>,
    << 57, "double_feed_detector", 4, 1 >>,
    << 57, "full_size_scan", 2, 1 >>, << 57, "feed_slow", 1, 1 >>,
    << 57, "remove_shadow", 0, 1 >> }

\* byte b with the bits shift .. shift + width - 1 cleared
Others(b, shift, width) == b - Bits(b, shift, width) * (2 ^ shift)

\* The bits of byte p[1] outside the place of field p[2] are what they
\* would be with that field 0.
KeepsToItsBits(p) ==
  LET w0 == [window EXCEPT ![p[2]] = 0]
      b0 == window_serialise(WindowBody, w0).bytes[p[1]]
  IN  Others(WindowBody[p[1]], p[3], p[4]) = Others(b0, p[3], p[4])

\* The two bytes as the layout writes them, each field in its place.
Byte41(w) ==
  w.flatbed * 128 + w.stop_on_skew * 16 + w.disable_buffering * 8
    + w.continue_on_double_feed
Byte56(w) ==
  w.ahead_disable * 128 + w.deskew * 32 + w.double_feed_detector * 16
    + w.full_size_scan * 4 + w.feed_slow * 2 + w.remove_shadow

\* C31: in the window sent, body byte 41 is flatbed<<7 | stop_on_skew<<4 |
\* disable_buffering<<3 | continue_on_double_feed and body byte 56 is
\* ahead_disable<<7 | deskew<<5 | double_feed_detector<<4 |
\* full_size_scan<<2 | feed_slow<<1 | remove_shadow, and whatever value a
\* field holds it changes only its own bits of the byte.
C31_FieldsKeepToTheirBits ==
  WindowSent =>
    /\ WindowBody[42] = Byte41(window)
    /\ WindowBody[57] = Byte56(window)
    /\ \A p \in PackedLayout : KeepsToItsBits(p)

\* The same for windows with every field in its documented range.
C31_ValidFieldsKeepToTheirBits ==
  (WindowSent /\ ValidWindow(window)) =>
    /\ WindowBody[42] = Byte41(window)
    /\ WindowBody[57] = Byte56(window)
    /\ \A p \in PackedLayout : KeepsToItsBits(p)

\* a valid window with every field of the second shared byte set
C31_ValidWitness ==
  /\ WindowSent /\ ValidWindow(window)
  /\ window.ahead_disable = 1 /\ window.deskew = 2
  /\ window.full_size_scan = 1 /\ window.remove_shadow = 1
  /\ WindowBody[57] = 197

\* ================================================== buffer status reply
\* get_data_buffer_status has returned 0: last.data is its buffer.
StatusDecoded ==
  last.op = "wait" /\ last.ret = 0 /\ Len(last.data) = 12

\* C32: for every 12-byte GET DATA BUFFER STATUS reply both transports
\* take the window id from byte 4 and the length from bytes 9..11 as a
\* big-endian number below 2^24, and the USB and the SCSI generic decoder
\* give the same length for the same bytes, on a host of either byte
\* order.
C32_SameLengthBothTransports ==
  StatusDecoded =>
    LET b == last.data
        tribyte == << 0, b[10], b[11], b[12] >>
    IN  /\ BufferWindowId(b) = b[5]
        /\ UsbBufferLength(b) = tribyte
        /\ \A le \in BOOLEAN :
             /\ SgBufferLength(b, le) = tribyte
             /\ SgBufferLength(b, le) = UsbBufferLength(b)

\* C32 as the code has it: the USB decoder gives the big-endian number;
\* the SCSI generic decoder gives it on a big-endian host and gives its
\* four bytes in reverse order on a little-endian host; the two agree on
\* whether the length is zero.
C32_SgLengthReversed ==
  StatusDecoded =>
    LET b == last.data
        tribyte == << 0, b[10], b[11], b[12] >>
    IN  /\ BufferWindowId(b) = b[5]
        /\ UsbBufferLength(b) = tribyte
        /\ SgBufferLength(b, FALSE) = tribyte
        /\ SgBufferLength(b, TRUE) = << b[12], b[11], b[10], 0 >>
        /\ \A le \in BOOLEAN :
             (SgBufferLength(b, le) = Zero4) = (UsbBufferLength(b) = Zero4)

\* a reply with length bytes 00 01 ff has been decoded over SCSI generic
C32_Witness ==
  /\ StatusDecoded /\ transport = "sg" /\ pc = "read"
  /\ last.data[5] = 128
  /\ last.data[10] = 0 /\ last.data[11] = 1 /\ last.data[12] = 255
  /\ SgBufferLength(last.data, TRUE) = << 255, 1, 0, 0 >>

\* ======================================================= the wait loop
\* The reply in the buffer of get_data_buffer_status reports data.
ReportsData(d) == Len(d) = 12 /\ << d[10], d[11], d[12] >> # << 0, 0, 0 >>

\* C33: data_buffer_wait returns 0 only directly after a GET DATA BUFFER
\* STATUS that succeeded and reported a length other than 0; after one
\* that succeeded and reported 0 it sleeps and polls again; after the
\* first one that fails it returns non-zero, and no poll follows.
C33_WaitUntilData ==
  [][/\ (pc = "wait" /\ last'.api = 0) =>
          /\ last'.op = "wait" /\ last'.ret = 0 /\ ReportsData(last'.data)
          /\ pc' = "read"
     /\ (pc = "wait" /\ last'.ret = 0 /\ ~ReportsData(last'.data)) =>
          /\ pc' = "sleep" /\ last'.api = -2
     /\ (pc = "wait" /\ last'.ret \notin {0, -1}) =>
          /\ pc' = "aborted" /\ last'.api > 0
     /\ (pc = "wait" /\ last'.ret = -1) => (pc' = "wait" /\ transport = "sg")
     /\ pc = "sleep" => pc' = "wait"
     /\ pc # "aborted"]_vars

\* the wait has returned 0 over USB at a poll that found data, in a run
\* in which bus or device once did something else than asked
C33_Witness ==
  /\ pc = "read" /\ transport = "usb"
  /\ last.op = "wait" /\ last.api = 0 /\ last.ret = 0
  /\ ReportsData(last.data) /\ last.data[11] = 1
  /\ hist.anomalies = 1

\* the wait has returned non-zero at a failed poll
C33_FailedWitness ==
  /\ pc = "aborted" /\ last.op = "wait" /\ last.api > 0 /\ last.ret = 2

\* ====================================================== the bulk frames
\* The USB session on its own: one page, duplex, with whatever bus and
\* device do.
UsbInit ==
  /\ transport = "usb"
  /\ duplex = TRUE
  /\ num_pages = 1
  /\ block_size = 1
  /\ window = MainWindow(transport, 1, num_pages)
  /\ pc = "reset"
  /\ Start

UsbSpec == UsbInit /\ [][Next]_vars

BULK_HEADER_SIZE == 12    \* sizeof(struct bulk_header), packed
COMMAND_BLOCK == 1
DATA_BLOCK == 2
COMMAND_CODE == 36864     \* 0x9000
DATA_CODE == 45056        \* 0xb000
STATUS_SIZE == 4

\* htonl(n) as it lies in memory
Htonl(n) ==
  << (n \div 16777216) % 256, (n \div 65536) % 256, (n \div 256) % 256,
     n % 256 >>

\* a length left in the byte order of a little-endian host
HostOrderLength(n) ==
  << n % 256, (n \div 256) % 256, (n \div 65536) % 256,
     (n \div 16777216) % 256 >>

\* htons(n) as it lies in memory
Htons(n) == << (n \div 256) % 256, n % 256 >>

\* buf after memcpy(buf + at, src, Len(src)); at counts from 0.  A copy
\* past the end of buf is not part of buf.
Memcpy(buf, at, src) ==
  [i \in 1 .. Len(buf) |->
     IF i > at /\ i <= at + Len(src) THEN src[i - at] ELSE buf[i]]

\* a command frame whose length field is not converted
HostOrderCommandFrame(cdb) ==
  LET sz == BULK_HEADER_SIZE + MAX_CMD_SIZE
      h0 == [i \in 1 .. sz |-> 0]
      h1 == Memcpy(h0, 0, HostOrderLength(sz))
      h2 == Memcpy(h1, 4, Htons(COMMAND_BLOCK))
      h3 == Memcpy(h2, 6, Htons(COMMAND_CODE))
  IN  Memcpy(h3, BULK_HEADER_SIZE, cdb)

\* usb_send_command: the command frame, the first sz bytes of buf as the
\* first bulk transfer sends them
CommandFrame(cdb) ==
  LET sz == BULK_HEADER_SIZE + MAX_CMD_SIZE
      h0 == [i \in 1 .. sz |-> 0]
      h1 == Memcpy(h0, 0, Htonl(sz))
      h2 == Memcpy(h1, 4, Htons(COMMAND_BLOCK))
      h3 == Memcpy(h2, 6, Htons(COMMAND_CODE))
  IN  Memcpy(h3, BULK_HEADER_SIZE, cdb)

\* usb_send_command, CMD_OUT: the data frame made in buf, which holds the
\* command frame sent before; sz = sizeof(*h) + c->data_size bytes go out
DataFrame(buf, data) ==
  LET sz == BULK_HEADER_SIZE + Len(data)
      h0 == [i \in 1 .. Len(buf) |-> IF i <= BULK_HEADER_SIZE THEN 0
                                     ELSE buf[i]]
      h1 == Memcpy(h0, 0, Htonl(sz))
      h2 == Memcpy(h1, 4, Htons(DATA_BLOCK))
      h3 == Memcpy(h2, 6, Htons(DATA_CODE))
  IN  SubSeq(Memcpy(h3, BULK_HEADER_SIZE, data), 1, sz)

\* send_command: the size of bb, alloca(sizeof(struct bulk_header) +
\* (data_length > MAX_CMD_SIZE ? data_length : MAX_CMD_SIZE))
ScratchSize(data_length) ==
  BULK_HEADER_SIZE +
    (IF data_length > MAX_CMD_SIZE THEN data_length ELSE MAX_CMD_SIZE)

\* send_command: the size of b, the buffer of its REQUEST SENSE
SenseScratchSize == BULK_HEADER_SIZE + RESPONSE_SIZE

\* The end of each write usb_send_command makes to buf in a call with the
\* given CDB and data: the memset and the memcpy of the command frame, the
\* inbound transfer, the memset and memcpy of the data frame.
FrameWriteEnds(cdb, dir, data_size) ==
  {BULK_HEADER_SIZE + MAX_CMD_SIZE, BULK_HEADER_SIZE + Len(cdb)}
    \cup (IF dir = "in" THEN {BULK_HEADER_SIZE + data_size} ELSE {})
    \cup (IF dir = "out"
          THEN {BULK_HEADER_SIZE, BULK_HEADER_SIZE + data_size} ELSE {})

\* The direction of the data phase of the latest call, as its bulk
\* transfers tell.
LastDir ==
  IF Frames(last.xfers, << "cmd", "data_out" >>) > 0 THEN "out"
  ELSE IF Frames(last.xfers, << "cmd", "data_in" >>) > 0 THEN "in"
  ELSE "none"

\* f is a command frame for cdb
IsCommandFrame(f, cdb) ==
  /\ Len(f) = 24
  /\ BE32(f, 1) = W32(24)
  /\ BE16(f, 5) = 1
  /\ BE16(f, 7) = 36864
  /\ BE32(f, 9) = W32(0)
  /\ Len(cdb) \in {6, 10}
  /\ SubSeq(f, 13, 12 + Len(cdb)) = cdb
  /\ \A i \in 13 + Len(cdb) .. 24 : f[i] = 0

\* f is a data frame for the payload
IsDataFrame(f, data) ==
  /\ Len(f) = 12 + Len(data)
  /\ BE32(f, 1) = W32(12 + Len(data))
  /\ BE16(f, 5) = 2
  /\ BE16(f, 7) = 45056
  /\ BE32(f, 9) = W32(0)
  /\ SubSeq(f, 13, Len(f)) = data

\* C34: every command frame the USB transport sends is 24 bytes: length
\* field 24 big-endian, block type 1, block code 0x9000, transaction id 0,
\* the CDB of 6 or 10 bytes and zeros up to 12; every data frame it sends
\* has length field 12 + payload length, block type 2, block code 0xb000
\* and transaction id 0; no write of a frame goes beyond the scratch
\* buffer of the call.
C34_FramesWellFormed ==
  UsbCall =>
    /\ IsCommandFrame(CommandFrame(last.cdb), last.cdb)
    /\ \A e \in FrameWriteEnds(last.cdb, LastDir, last.len) :
         e <= ScratchSize(last.len)
    /\ LastDir = "out" =>
         LET buf == [i \in 1 .. ScratchSize(last.len) |->
                       IF i <= 24 THEN CommandFrame(last.cdb)[i] ELSE Indet]
         IN  IsDataFrame(DataFrame(buf, windowbytes), windowbytes)
    /\ Frames(last.xfers, << "sense", "cmd" >>) > 0 =>
         /\ IsCommandFrame(CommandFrame(RequestSenseCdb), RequestSenseCdb)
         /\ \A e \in FrameWriteEnds(RequestSenseCdb, "in", RESPONSE_SIZE) :
              e <= SenseScratchSize

\* the back window has gone out in a data frame of 84 bytes, and a
\* REQUEST SENSE followed
C34_Witness ==
  /\ UsbCall /\ last.op = "setwin_back" /\ LastDir = "out"
  /\ last.len = 72 /\ Len(windowbytes) = 72 /\ windowbytes[9] = 128
  /\ Frames(last.xfers, << "sense", "cmd" >>) = 1
  /\ CommandFrame(last.cdb)[4] = 24 /\ CommandFrame(last.cdb)[13] = 36
  /\ CommandFrame(last.cdb)[21] = 72

\* ======================================================= the READ command
\* read_data called with a buffer of any size, for an image of the given
\* size: << blen, image size >>.
BufferAndImage ==
  { << 255, 600 >>, << 256, 600 >>, << 65535, 65537 >>, << 65536, 65537 >>,
    << 65537, 65537 >>, << 16777216, 65537 >> }

ReadInit ==
  /\ transport \in {"usb", "sg"}
  /\ duplex \in BOOLEAN
  /\ num_pages = 2
  /\ block_size = 2
  /\ window = MainWindow(transport, 2, num_pages)
  /\ windowbytes = JunkWindowBytes
  /\ pc = "read"
  /\ pageno = 0
  /\ page \in {0, 1}
  /\ side \in (IF duplex THEN {0, 1} ELSE {0})
  /\ retries = 0
  /\ last = [op |-> "none", api |-> 0, ret |-> 0, cdb |-> << >>, len |-> 0,
             attempts |-> 0, data |-> << >>, xfers |-> << >>,
             img |-> 0, result |-> Zero4, eop |-> FALSE,
             reads |-> 0, sum |-> 0, honest |-> TRUE, size |-> 0]
  /\ result = Indet4
  /\ end_of_page = FALSE
  /\ g = [page |-> 0, scanner_page |-> 0]
  /\ reported = << >>
  /\ requestsense = [i \in SenseIdx |-> Indet]
  /\ senseSrc = [i \in SenseIdx |-> "uninit"]
  /\ \E bi \in BufferAndImage :
       /\ hist = [InitHist EXCEPT !.blen = bi[1], !.waited = TRUE,
                                  !.sized = TRUE]
       /\ devRemaining = bi[2]
       /\ imgSize = bi[2]

\* read_data with the caller's buffer
ReadAny == ReadDataWith(hist.blen)

ReadNext == ReadAny

ReadSpec == ReadInit /\ [][ReadNext]_vars

\* C35: read_data asks for min(blen, 0x10000) bytes, and bytes 6..8 of the
\* READ CDB are that number as three big-endian bytes, nothing cut off
\* (0x10000 is 01 00 00); byte 0 is 0x28, byte 2 the data type, byte 4
\* the page index and byte 5 0x80 for the back side, 0 for the front.
C35_ReadCdb ==
  [][pc = "read" =>
       LET c == last'.cdb
           want == IF hist.blen < 65536 THEN hist.blen ELSE 65536
       IN  /\ last'.op = "read"
           /\ last'.len = want
           /\ Len(c) = 10
           /\ c[7] * 65536 + c[8] * 256 + c[9] = want
           /\ want = 65536 => << c[7], c[8], c[9] >> = << 1, 0, 0 >>
           /\ c[1] = 40
           /\ c[3] = KVS3105_READ_IMAGE
           /\ c[5] = page
           /\ c[6] = (IF side = 1 THEN 128 ELSE 0)]_vars

\* a full chunk of the back side of page 1 has been asked for with a
\* buffer larger than a chunk
C35_Witness ==
  /\ last.op = "read" /\ last.ret = 0 /\ hist.blen = 65537
  /\ last.len = 65536
  /\ last.cdb = << 40, 0, 0, 0, 1, 128, 1, 0, 0, 0 >>

\* ================================================ the caller's sense buffer
\* C36: after every USB call all 20 bytes of the caller's sense buffer
\* come from that call alone: each is zero or a byte this call's REQUEST
\* SENSE fetched, none keeps what it held before the call, and all are
\* zero when the call returns 0.
C36_SenseFromThisCall ==
  UsbCall =>
    /\ \A i \in SenseIdx : senseSrc[i] \in {"zero", "fresh"}
    /\ last.ret = 0 => \A i \in SenseIdx : requestsense[i] = 0

\* C36 as the code has it: a call clears the first RESPONSE_SIZE bytes and
\* a call that returns 0 leaves them zero; the last two bytes of the 20
\* are what main's buffer held when it was declared, after every call.
C36_LastTwoNeverWritten ==
  UsbCall =>
    /\ last.ret \in {0, 1, 3} =>
         \A i \in 1 .. RESPONSE_SIZE :
           requestsense[i] = 0 /\ senseSrc[i] = "zero"
    /\ \A i \in RESPONSE_SIZE + 1 .. KVS3105_REQUEST_SENSE_SIZE :
         requestsense[i] = Indet /\ senseSrc[i] = "uninit"

\* a USB call has returned 0 and left the first 18 bytes zero
C36_Witness ==
  /\ UsbCall /\ last.op = "scan" /\ last.ret = 0
  /\ requestsense[1] = 0 /\ requestsense[18] = 0
  /\ requestsense[19] = Indet /\ senseSrc[20] = "uninit"

\* ====================================================== pages per block
\* kvscanner with -b up to MaxBlock or above 254, explored as long as bus,
\* driver and device do as they should.
BlockInit ==
  /\ transport \in {"usb", "sg"}
  /\ duplex \in BOOLEAN
  /\ num_pages \in 1 .. MaxPages
  /\ \E b \in (0 .. MaxBlock) \cup {WrapBlock} :
       /\ block_size = BlockSize(b, num_pages)
       /\ window = MainWindow(transport, b, num_pages)
  /\ windowbytes = JunkWindowBytes
  /\ pc = IF transport = "usb" THEN "reset" ELSE "setwin_front"
  /\ StartWith(WrapHist)

BlockSpec == BlockInit /\ [][Next]_vars

\* number_of_pages_to_scan in the window the device was sent last
PagesSent == WindowBody[58]

\* C37: in every block the number_of_pages_to_scan sent to the device is
\* 0xff or the number of pages main reads in the block, and main asks for
\* no page index (the page's number in the block, as a byte) at or above
\* the number sent.
C37_PagesConfigured ==
  /\ [](pc \in Inner \cup {"scan"} =>
          (PagesSent = 255 \/ PagesSent = block_size))
  /\ []((pc \in Inner /\ last.op \in {"size", "read"}) =>
          /\ last.cdb[5] = (last.img \div Sides) % 256
          /\ (PagesSent = 255 \/ last.cdb[5] < PagesSent))
  /\ [][(pc = "read" /\ pc' \notin Inner /\ pc' # "aborted") =>
          /\ (hist.imagesDone + 1) = block_size * Sides
          /\ (PagesSent = 255 \/ hist.imagesDone + 1 = PagesSent * Sides)]_vars

\* the second page of a block of two is being read, the device told to
\* scan two
C37_Witness ==
  /\ pc = "read" /\ last.op = "read" /\ last.cdb[5] = 1
  /\ window.number_of_pages_to_scan = 2 /\ PagesSent = 2
  /\ num_pages = 2 /\ block_size = 2 /\ duplex

\* ================================================ the two error tables
\* kvss905c_strerror: the cases of its switch that return a description
\* whatever the sense key: error code, description.
SgPlainTable ==
  {<< 9216, "Invalid field in CDB" >>,
   << 14848, "Out of paper" >>,
   << 1152, "Document lead door open" >>,
   << 1153, "Document discharge door open" >>,
   << 1154, "Post imprinter door open" >>,
   << 32771, "Jammed at document discharge 2" >>,
   << 32774, "Jammed at document feed 2" >>,
   << 32775, "Jammed at document feed 3" >>,
   << 32776, "Jammed at document feed 4" >>,
   << 32778, "Skew error" >>,
   << 32779, "Minimum media error" >>,
   << 32780, "Media length error" >>,
   << 32781, "Double feed error" >>,
   << 32782, "Barcode error" >>,
   << 2176, "Internal parameter error" >>,
   << 2177, "Internal DMA error" >>,
   << 2178, "Internal command error" >>,
   << 32899, "Internal communication error" >>,
   << 17536, "Internal RAM error" >>,
   << 17537, "Internal EEPROM error" >>,
   << 17538, "FPGA error" >>,
   << 18176, "SCSI parity error" >>,
   << 6656, "Parameter list length error" >>,
   << 8192, "Invalid command op code" >>,
   << 9472, "Logical unit not supported" >>,
   << 9728, "Invalid field in parameter list" >>,
   << 11265, "Too many windows" >>,
   << 11266, "Invalid window combination" >>,
   << 11392, "Out of memory" >>,
   << 11393, "No back scanning unit" >>,
   << 11394, "No imprinter unit" >>,
   << 11395, "Pointer position error" >>,
   << 11396, "Out of scanning page limit" >>,
   << 11397, "Out of scanning length limit" >>,
   << 11398, "Out of scanning resolution limit" >>,
   << 11399, "Out of scanning line cycle limit" >>,
   << 15616, "Invalid bits in identity message" >>,
   << 10496, "Unit attention" >>,
   << 6912, "Sync data transfer error" >>,
   << 17152, "Message error" >>,
   << 18688, "Invalid message error" >>}

\* kvss905c_strerror: the cases that look at the sense key: sense key,
\* error code, description.
SgKeyedTable ==
  {<< 2, 32769, "Scanner stopped" >>,
   << 3, 32769, "Jammed at document lead" >>,
   << 4, 32769, "Lamp failure with regular temperature" >>,
   << 2, 32770, "Document feeder stopped" >>,
   << 3, 32770, "Jammed at document discharge 1" >>,
   << 4, 32770, "Document size detect error" >>,
   << 3, 32772, "Document internal rest" >>,
   << 4, 32772, "Document hopper error" >>,
   << 3, 32773, "Jammed at document feed 1" >>,
   << 4, 32773, "Document sensor adjust error" >>}

\* kvss905c_strerror
kvss905c_strerror(rs) ==
  LET error == scsi_error_code(rs)[1] * 256 + scsi_error_code(rs)[2]
      sense == rs[3] % 16
      keyed == { e \in SgKeyedTable : e[2] = error }
      hits  == { e \in keyed : e[1] = sense }
      plain == { e \in SgPlainTable : e[1] = error }
  IN  IF keyed # {}
      THEN (IF hits = {} THEN NULL ELSE (CHOOSE e \in hits : TRUE)[3])
      ELSE IF plain = {} THEN NULL ELSE (CHOOSE e \in plain : TRUE)[2]

\* The description report has printed for the sense data, NULL if none.
UsbSaid == IF Len(reported) > 1 THEN reported[2] ELSE NULL

\* Two results of the lookups that tell of the same condition; the
\* document feeder is the ADF.
SameCondition(a, b) ==
  \/ a = b
  \/ {a, b} = {"ADF stopped", "Document feeder stopped"}

\* C38: for every sense key and every error code the lookup of the USB
\* driver and that of the SCSI generic driver both know nothing or both
\* describe the same condition (key 3 with 0x3a00 is "Out of paper" in
\* both, the jam codes 0x8005..0x8009 name the same feed position).
C38_LookupsAgree ==
  pc = "aborted" =>
    SameCondition(UsbSaid, kvss905c_strerror(requestsense))

\* C38 as the code has it, for the jams: with sense key 3 the USB lookup
\* counts the feed positions from 0x8006 and the SCSI generic lookup
\* from 0x8005.
C38_FeedPositionsShifted ==
  (pc = "aborted" /\ requestsense[3] % 16 = 3) =>
    LET sg == kvss905c_strerror(requestsense)
        code == scsi_usb_error_code(requestsense)
    IN  /\ code = 14848 => (UsbSaid = "Out of paper" /\ sg = "Out of paper")
        /\ code = 32773 =>
              (UsbSaid = NULL /\ sg = "Jammed at document feed 1")
        /\ code = 32774 => (UsbSaid = "Jammed at document feed 1"
                             /\ sg = "Jammed at document feed 2")
        /\ code = 32775 => (UsbSaid = "Jammed at document feed 2"
                             /\ sg = "Jammed at document feed 3")
        /\ code = 32776 => (UsbSaid = "Jammed at document feed 3"
                             /\ sg = "Jammed at document feed 4")
        /\ code = 32777 =>
              (UsbSaid = "Jammed at document feed 4" /\ sg = NULL)

\* sense key 3 with 0x8006 has been reported
C38_Witness ==
  /\ pc = "aborted" /\ requestsense[3] = 3
  /\ scsi_usb_error_code(requestsense) = 32774
  /\ UsbSaid = "Jammed at document feed 1"
  /\ kvss905c_strerror(requestsense) = "Jammed at document feed 2"

====
